---- MODULE Spec2Model ----
(***************************************************************************)
(* Party registry of endstone_euphoria_parties: the Party entity           *)
(* (models.py), the PartyManager registry (party_manager.py) and the file  *)
(* storage backend (storage.py).                                           *)
(*                                                                         *)
(* Player UUIDs are the integers 1..NumPlayers; the order of the integers  *)
(* stands for the order of the UUIDs' string forms.  Party ids (uuid4) are *)
(* drawn from a counter, so an id is never handed out twice.  Python dicts *)
(* keep insertion order; `parties` is inserted in creation order and saved *)
(* and loaded in that order, so its iteration order is ascending id.       *)
(* A `party` argument of a registry operation is a party currently held in *)
(* `parties`.                                                              *)
(***************************************************************************)
EXTENDS Integers, FiniteSets, Sequences, TLC

\* ---- bounds ----
NumPlayers == 2
MaxParties == 2
MaxTicks == 1
MaxOps == 5

\* ---- configuration (scaled down) ----
InviteExpirationMs == 1
MaxMembers == 2
MaxPendingInvites == 1
MILLIS_PER_DAY == 2

Players == 1..NumPlayers
PartyIds == 1..MaxParties
MaxTime == InviteExpirationMs + MaxTicks
\* the clock readings at which daily rewards are claimed: three days and a bit
MaxRewardTime == 3 * MILLIS_PER_DAY + 1

\* the absent value: no player and no party has id 0
None == 0

LEADER == "leader"
OFFICER == "officer"
MEMBER == "member"
RECRUIT == "recruit"
PartyRole == {LEADER, OFFICER, MEMBER, RECRUIT}

VARIABLES
    parties,          \* PartyManager.parties: party id -> Party
    player_to_party,  \* PartyManager.player_to_party: player -> party id
    player_invites,   \* PartyManager.player_invites: player -> party id
    player_names,     \* PartyManager.player_names: player -> name
    dirty,            \* PartyManager._dirty
    data_file,        \* the storage data file: << >> when missing, else <<payload>>
    backup_file,      \* the .json.backup sibling of the data file, same encoding
    temp_file,        \* the .json.tmp sibling of the data file, same encoding
    save_pc,          \* where a storage.save taken step by step stands
    backup_error,     \* whether the backup copy of that save raised
    party_table,      \* MySQL backend: committed rows of the party table, by party_id
    names_table,      \* MySQL backend: committed rows of the name table, by player_id
    tx,               \* MySQL backend: the two tables as the open transaction sees them
    config,           \* the storage keys of the plugin configuration
    backend,          \* what create_storage returned last, and whether it logged an error
    last_command_use_ms,  \* PartyManager.last_command_use_ms: player -> clock reading
    cooldown_reply,   \* what the last cooldown question was and what it was answered
    now,              \* the clock read by now_ms()
    next_id,          \* the next fresh party id (uuid4)
    result,           \* outcome of the last call, see Res
    invite_age,       \* age of the invite the last call, an accept_invite, looked at
    task_handle,      \* _marker_task, _playtime_task, _cleanup_task: TRUE when not None
    scheduled,        \* per periodic task, the instances live in the scheduler
    shutdown_log,     \* the steps shutdown has taken, in order; << >> before shutdown
    ops               \* number of calls made so far

vars == <<parties, player_to_party, player_invites, player_names, dirty,
          data_file, backup_file, temp_file, save_pc, backup_error, party_table,
          names_table, tx, config, backend, last_command_use_ms, cooldown_reply,
          now, next_id,
          result, invite_age, task_handle, scheduled, shutdown_log, ops>>

\* ---- dict helpers ----
EmptyMap == [x \in {} |-> 0]
Put(f, k, v) == [x \in (DOMAIN f) \cup {k} |-> IF x = k THEN v ELSE f[x]]
Pop(f, k) == [x \in (DOMAIN f) \ {k} |-> f[x]]
Get(f, k, d) == IF k \in DOMAIN f THEN f[k] ELSE d
Restrict(f, S) == [x \in (DOMAIN f) \cap S |-> f[x]]

SetMin(S) == CHOOSE x \in S : \A y \in S : x <= y
SetMax(S) == CHOOSE x \in S : \A y \in S : y <= x

RECURSIVE SortedSeq(_)
SortedSeq(S) == IF S = {} THEN << >> ELSE <<SetMin(S)>> \o SortedSeq(S \ {SetMin(S)})

Range(s) == {s[i] : i \in DOMAIN s}

\* ---- models.py: Party ----
Party_create(id, leader_id) ==
    [id |-> id, leader |-> leader_id, members |-> {leader_id},
     invites |-> EmptyMap, join_requests |-> EmptyMap,
     roles |-> Put(EmptyMap, leader_id, LEADER),
     banned_players |-> {},
     last_daily_reward |-> EmptyMap, consecutive_days |-> 0, last_reward_date |-> 0,
     last_seen |-> EmptyMap]

is_member(p, player_id) == player_id \in p.members
is_leader(p, player_id) == p.leader = player_id
get_role(p, player_id) == Get(p.roles, player_id, MEMBER)

set_role(p, player_id, role) ==
    IF player_id = p.leader THEN [p EXCEPT !.roles = Put(@, player_id, LEADER)]
    ELSE IF player_id \in p.members THEN [p EXCEPT !.roles = Put(@, player_id, role)]
    ELSE p

transfer_leadership_ok(p, new_leader_id) == new_leader_id \in p.members

transfer_leadership(p, new_leader_id) ==
    IF new_leader_id \notin p.members THEN p
    ELSE LET p1 == IF p.leader # new_leader_id
                   THEN [p EXCEPT !.roles = Put(@, p.leader, OFFICER),
                                  !.leader = new_leader_id]
                   ELSE p
         IN [p1 EXCEPT !.roles = Put(@, p1.leader, LEADER)]

\* variant of add_member that gives a new member the role RECRUIT
add_member_as_recruit(p, player_id) ==
    [p EXCEPT !.members = @ \cup {player_id},
              !.invites = Pop(@, player_id),
              !.join_requests = Pop(@, player_id),
              !.roles = IF player_id \in DOMAIN @ THEN @ ELSE Put(@, player_id, RECRUIT)]

add_member(p, player_id) ==
    [p EXCEPT !.members = @ \cup {player_id},
              !.invites = Pop(@, player_id),
              !.join_requests = Pop(@, player_id),
              !.roles = IF player_id \in DOMAIN @ THEN @ ELSE Put(@, player_id, MEMBER)]

remove_member(p, player_id) ==
    [p EXCEPT !.members = @ \ {player_id},
              !.invites = Pop(@, player_id),
              !.join_requests = Pop(@, player_id),
              !.roles = Pop(@, player_id),
              !.last_daily_reward = Pop(@, player_id),
              !.last_seen = Pop(@, player_id)]

Party_invite_player(p, player_id, t) == [p EXCEPT !.invites = Put(@, player_id, t)]
has_invite(p, player_id) == player_id \in DOMAIN p.invites
remove_invite(p, player_id) == [p EXCEPT !.invites = Pop(@, player_id)]

expired_invites(p, expiration_ms, t) ==
    {x \in DOMAIN p.invites : p.invites[x] < t - expiration_ms}
clean_expired_invites(p, expiration_ms, t) ==
    [p EXCEPT !.invites = Restrict(@, (DOMAIN @) \ expired_invites(p, expiration_ms, t))]

add_join_request(p, player_id, t) == [p EXCEPT !.join_requests = Put(@, player_id, t)]
has_join_request(p, player_id) == player_id \in DOMAIN p.join_requests
remove_join_request(p, player_id) == [p EXCEPT !.join_requests = Pop(@, player_id)]

expired_join_requests(p, expiration_ms, t) ==
    {x \in DOMAIN p.join_requests : p.join_requests[x] < t - expiration_ms}
clean_expired_join_requests(p, expiration_ms, t) ==
    [p EXCEPT !.join_requests =
        Restrict(@, (DOMAIN @) \ expired_join_requests(p, expiration_ms, t))]

\* ban_player adds the player to banned_players and removes them as a member;
\* it is preceded by a variant that leaves a pending invite of the player
ban_player_keeps_invite(p, player_id) ==
    [remove_member([p EXCEPT !.banned_players = @ \cup {player_id}], player_id)
        EXCEPT !.invites = p.invites]

ban_player(p, player_id) ==
    remove_member([p EXCEPT !.banned_players = @ \cup {player_id}], player_id)
unban_player(p, player_id) == [p EXCEPT !.banned_players = @ \ {player_id}]

\* the daily reward: a member may claim once per day; the party's streak
\* grows when the previous claim of any member was one day ago, restarts when
\* it was longer ago, and starts at 1 (last_reward_date = 0 means no claim yet)
can_claim_daily_reward(p, player_id, timestamp_ms) ==
    IF player_id \notin DOMAIN p.last_daily_reward THEN TRUE
    ELSE (timestamp_ms - p.last_daily_reward[player_id]) >= MILLIS_PER_DAY

\* variant of claim_daily_reward whose streak also grows after a gap of more
\* than one day
claim_daily_reward_never_resets(p, player_id, timestamp_ms) ==
    LET days_since == (timestamp_ms - p.last_reward_date) \div MILLIS_PER_DAY
    IN [p EXCEPT !.last_daily_reward = Put(@, player_id, timestamp_ms),
                 !.consecutive_days =
                     IF p.last_reward_date > 0
                     THEN IF days_since >= 1 THEN @ + 1 ELSE @
                     ELSE 1,
                 !.last_reward_date = timestamp_ms]

claim_daily_reward(p, player_id, timestamp_ms) ==
    LET days_since == (timestamp_ms - p.last_reward_date) \div MILLIS_PER_DAY
    IN [p EXCEPT !.last_daily_reward = Put(@, player_id, timestamp_ms),
                 !.consecutive_days =
                     IF p.last_reward_date > 0
                     THEN IF days_since = 1 THEN @ + 1
                          ELSE IF days_since > 1 THEN 1 ELSE @
                     ELSE 1,
                 !.last_reward_date = timestamp_ms]

\* ---- models.py: snapshot conversion ----
\* str(uuid) of a player or party id, and its parser
str_uuid(u) == <<"uuid", u>>
parse_uuid(v) ==
    IF v \in {str_uuid(u) : u \in Players \cup PartyIds} THEN v[2] ELSE None

StrKeys(f) == [k \in {str_uuid(x) : x \in DOMAIN f} |-> f[k[2]]]
ParseKeys(f) ==
    [x \in {parse_uuid(k) : k \in DOMAIN f} \ {None} |-> f[str_uuid(x)]]

\* values of a snapshot that int() and UUID() reject, and the result of
\* data.get on a key the snapshot lacks
NotAnInt == -1
BadUuid == <<"not-a-uuid", 0>>
Absent == <<"absent", 0>>

PartyRole_parse(value) == IF value \in PartyRole THEN value ELSE MEMBER

to_dict(p) ==
    [id |-> str_uuid(p.id), leader |-> str_uuid(p.leader),
     members |-> [i \in DOMAIN SortedSeq(p.members) |-> str_uuid(SortedSeq(p.members)[i])],
     invites |-> StrKeys(p.invites),
     join_requests |-> StrKeys(p.join_requests),
     roles |-> StrKeys(p.roles),
     banned_players |->
        [i \in DOMAIN SortedSeq(p.banned_players) |-> str_uuid(SortedSeq(p.banned_players)[i])],
     last_daily_reward |-> StrKeys(p.last_daily_reward),
     consecutive_days |-> p.consecutive_days,
     last_reward_date |-> p.last_reward_date,
     last_seen |-> StrKeys(p.last_seen)]

from_dict(data) ==
    LET party_id == parse_uuid(data.id)
        leader_id == parse_uuid(data.leader)
        members == {parse_uuid(m) : m \in Range(data.members)} \ {None}
        raw_roles == LET r == ParseKeys(data.roles)
                     IN [x \in DOMAIN r |-> PartyRole_parse(r[x])]
        members1 == members \cup {leader_id}
        roles1 == Put(raw_roles, leader_id, LEADER)
    IN IF party_id = None \/ leader_id = None THEN [id |-> None]
       ELSE [id |-> party_id, leader |-> leader_id, members |-> members1,
             invites |-> ParseKeys(data.invites),
             join_requests |-> ParseKeys(data.join_requests),
             roles |-> Restrict(roles1, members1),
             banned_players |-> {parse_uuid(b) : b \in Range(data.banned_players)} \ {None},
             last_daily_reward |-> ParseKeys(data.last_daily_reward),
             consecutive_days |-> data.consecutive_days,
             last_reward_date |-> data.last_reward_date,
             last_seen |-> ParseKeys(data.last_seen)]

\* int(value) raises inside from_dict for a timestamp under an identifier that
\* parses, or for a streak field, that is not a number; identifiers are parsed
\* first, so an entry without id or leader returns None before that
bad_int_under_good_key(f) ==
    \E k \in DOMAIN f : parse_uuid(k) # None /\ f[k] = NotAnInt

from_dict_raises(data) ==
    /\ parse_uuid(data.id) # None
    /\ parse_uuid(data.leader) # None
    /\ \/ bad_int_under_good_key(data.invites)
       \/ bad_int_under_good_key(data.join_requests)
       \/ bad_int_under_good_key(data.last_daily_reward)
       \/ bad_int_under_good_key(data.last_seen)
       \/ data.consecutive_days = NotAnInt
       \/ data.last_reward_date = NotAnInt

\* ---- storage.py: PartyStorage ----
PlayerName(player) == <<"name", player>>
\* the empty display name; save writes and load keeps only the other names
EmptyName == <<"name", 0>>
NonEmptyNames(names) == Restrict(names, {k \in DOMAIN names : names[k] # EmptyName})

storage_payload(ps, names) ==
    [parties |-> [i \in DOMAIN SortedSeq(DOMAIN ps) |-> to_dict(ps[SortedSeq(DOMAIN ps)[i]])],
     player_names |-> StrKeys(NonEmptyNames(names))]

\* entries whose from_dict gives None are skipped
entry_ok(e) == parse_uuid(e.id) # None /\ parse_uuid(e.leader) # None

storage_load_parties(file) ==
    IF file = << >> THEN EmptyMap
    ELSE LET loaded == {from_dict(e) : e \in {x \in Range(file[1].parties) : entry_ok(x)}}
         IN [q \in {p.id : p \in loaded} |-> CHOOSE p \in loaded : p.id = q]

\* load has no handler around from_dict: one raising entry ends the whole load
storage_load_raises(file) ==
    IF file = << >> THEN FALSE
    ELSE \E e \in Range(file[1].parties) : from_dict_raises(e)

storage_load_names(file) ==
    IF file = << >> THEN EmptyMap ELSE NonEmptyNames(ParseKeys(file[1].player_names))

\* ---- storage.py: create_storage ----
\* what the configuration can hold under storage.provider, storage.storage,
\* storage.mysql.enabled and storage.mysql.port; "" stands for a key that is
\* absent or blank, NotAnInt for a port that int() rejects
ProviderValues == {"", "json", "mysql", " MySQL ", "sqlite"}
LegacyValues == {"json", "mysql", "yaml"}
PortValues == {3306, 0, NotAnInt}
DefaultPort == 3306
Configs == [provider : ProviderValues, storage : LegacyValues,
            mysql_enabled : BOOLEAN, port : PortValues]
DefaultConfig == [provider |-> "json", storage |-> "json", mysql_enabled |-> FALSE,
                  port |-> DefaultPort]

\* str(value).strip().lower()
strip_lower(v) == IF v = " MySQL " THEN "mysql" ELSE v

_resolve_storage_provider(c) ==
    LET named == IF strip_lower(c.provider) = "" THEN strip_lower(c.storage)
                 ELSE strip_lower(c.provider)
        forced == IF c.mysql_enabled THEN "mysql" ELSE named
    IN IF forced \notin {"json", "mysql"} THEN "json" ELSE forced

\* the port create_storage passes on: 3306 for a value that is not a number
\* or not a port
mysql_port(c) ==
    IF c.port = NotAnInt THEN DefaultPort
    ELSE IF c.port < 1 \/ c.port > 65535 THEN DefaultPort ELSE c.port

JsonBackend(logged) == [kind |-> "json", error_logged |-> logged, port |-> 0]

\* the backend create_storage returns and whether it logged an error;
\* init_raises tells whether MySQLPartyStorage(...) raises.  It is preceded
\* by a variant that returns the MySQL backend whatever its initialisation
\* did.
create_storage_backend_no_fallback(c, init_raises) ==
    IF _resolve_storage_provider(c) # "mysql" THEN JsonBackend(FALSE)
    ELSE [kind |-> "mysql", error_logged |-> FALSE, port |-> mysql_port(c)]

create_storage_backend(c, init_raises) ==
    IF _resolve_storage_provider(c) # "mysql" THEN JsonBackend(FALSE)
    ELSE IF init_raises THEN JsonBackend(TRUE)
    ELSE [kind |-> "mysql", error_logged |-> FALSE, port |-> mysql_port(c)]

\* ---- party_manager.py: command cooldown ----
\* one second and the hour after which _cleanup_memory forgets a use, in clock
\* units (1000 and 3,600,000 in the code), and the clock readings and the
\* values of security.command-cooldown they are tried with
MILLIS_PER_SECOND == 2
RetentionMs == 2 * MILLIS_PER_SECOND
MaxCooldownTime == RetentionMs + MILLIS_PER_SECOND + 1
CooldownValues == {-1, 0, 1, 2}
NoReply == [on |-> FALSE, remaining |-> 0, player |-> 0, cooldown |-> 0]
cooldowns == <<last_command_use_ms, cooldown_reply>>

Max(a, b) == IF a >= b THEN a ELSE b

\* preceded by a variant that rounds the elapsed time up to whole seconds
remaining_command_cooldown_rounds_up(used, cooldown_seconds, player_id, t) ==
    IF player_id \notin DOMAIN used THEN 0
    ELSE Max(0, cooldown_seconds
                  - ((t - used[player_id] + MILLIS_PER_SECOND - 1) \div MILLIS_PER_SECOND))

remaining_command_cooldown(used, cooldown_seconds, player_id, t) ==
    IF player_id \notin DOMAIN used THEN 0
    ELSE Max(0, cooldown_seconds - ((t - used[player_id]) \div MILLIS_PER_SECOND))

is_on_command_cooldown(used, cooldown_seconds, player_id, t) ==
    IF cooldown_seconds <= 0 THEN FALSE
    ELSE remaining_command_cooldown(used, cooldown_seconds, player_id, t) > 0

\* save: what storage keeps beside the data file (the sibling files of the
\* file backend, the tables of the MySQL backend) and the state of a save in
\* progress
save_files == <<backup_file, temp_file, save_pc, backup_error, party_table,
                names_table, tx, config, backend, cooldowns>>

\* the tables of the MySQL backend and its transaction; NoTx is the view of a
\* connection with no statement executed
NoTx == [parties |-> EmptyMap, names |-> EmptyMap]
NoTables == UNCHANGED <<party_table, names_table, tx, config, backend, cooldowns>>

\* what a write that did not finish leaves in a file: not a document
Truncated == [truncated |-> TRUE]
IsComplete(file) == file = << >> \/ "truncated" \notin DOMAIN file[1]

\* no backup, no temporary file, no save in progress
NoSaveYet ==
    /\ backup_file = << >>
    /\ temp_file = << >>
    /\ save_pc = "idle"
    /\ backup_error = FALSE
    /\ party_table = EmptyMap
    /\ names_table = EmptyMap
    /\ tx = NoTx
    /\ config = DefaultConfig
    /\ backend = JsonBackend(FALSE)
    /\ last_command_use_ms = EmptyMap
    /\ cooldown_reply = NoReply

\* save, run to its end without a failure: the data file, when there is one,
\* is copied to the backup, the payload is written to the temporary file and
\* the temporary file is renamed over the data file
storage_save(payload) ==
    /\ backup_file' = IF data_file # << >> THEN data_file ELSE backup_file
    /\ data_file' = <<payload>>
    /\ temp_file' = << >>
    /\ UNCHANGED <<save_pc, backup_error>>
    /\ NoTables


\* ---- party_manager.py: PartyManager ----
\* the registry fields that operations read and write together
Reg == [parties |-> parties, player_to_party |-> player_to_party,
        player_invites |-> player_invites, player_names |-> player_names,
        dirty |-> dirty]

SetReg(r) ==
    /\ parties' = r.parties
    /\ player_to_party' = r.player_to_party
    /\ player_invites' = r.player_invites
    /\ player_names' = r.player_names
    /\ dirty' = r.dirty

mark_dirty(r) == [r EXCEPT !.dirty = TRUE]

record_player_name(r, player) ==
    IF player \notin DOMAIN r.player_names \/ r.player_names[player] # PlayerName(player)
    THEN mark_dirty([r EXCEPT !.player_names = Put(@, player, PlayerName(player))])
    ELSE r

get_player_party(r, player_id) ==
    LET party_id == Get(r.player_to_party, player_id, None)
    IN IF party_id = None \/ party_id \notin DOMAIN r.parties THEN None ELSE party_id

is_in_party(r, player_id) ==
    /\ get_player_party(r, player_id) # None
    /\ is_member(r.parties[get_player_party(r, player_id)], player_id)

\* the index left by the loop over parties in ascending id: a later party wins
rebuild_indexes(r) ==
    LET fixed == [q \in DOMAIN r.parties |->
                    [r.parties[q] EXCEPT !.members = @ \cup {r.parties[q].leader},
                                         !.roles = Put(@, r.parties[q].leader, LEADER)]]
        changed == \E q \in DOMAIN r.parties :
                      \/ r.parties[q].leader \notin r.parties[q].members
                      \/ get_role(r.parties[q], r.parties[q].leader) # LEADER
                      \/ r.parties[q].leader \notin DOMAIN r.parties[q].roles
        holders(m) == {q \in DOMAIN fixed : m \in fixed[q].members}
        inviters(m) == {q \in DOMAIN fixed : m \in DOMAIN fixed[q].invites}
        r1 == [r EXCEPT !.parties = fixed,
                        !.player_to_party =
                            [m \in {x \in Players : holders(x) # {}} |-> SetMax(holders(m))],
                        !.player_invites =
                            [m \in {x \in Players : inviters(x) # {}} |-> SetMax(inviters(m))]]
    IN IF changed THEN mark_dirty(r1) ELSE r1

\* variant of disband_party_reg that drops the index entry of every member,
\* whichever party the entry names
disband_party_reg_drops_all(r, party_id) ==
    IF party_id \notin DOMAIN r.parties THEN r
    ELSE LET party == r.parties[party_id]
         IN mark_dirty(
              [r EXCEPT !.parties = Restrict(@, (DOMAIN @) \ {party_id}),
                        !.player_to_party =
                            Restrict(@, {m \in DOMAIN @ : m \notin party.members}),
                        !.player_invites =
                            Restrict(@, {m \in DOMAIN @ : @[m] # party_id})])

disband_party_reg(r, party_id) ==
    IF party_id \notin DOMAIN r.parties THEN r
    ELSE LET party == r.parties[party_id]
         IN mark_dirty(
              [r EXCEPT !.parties = Restrict(@, (DOMAIN @) \ {party_id}),
                        !.player_to_party =
                            Restrict(@, {m \in DOMAIN @ :
                                           ~(m \in party.members /\ @[m] = party_id)}),
                        !.player_invites =
                            Restrict(@, {m \in DOMAIN @ : @[m] # party_id})])

create_party_ok(r, leader) == ~is_in_party(r, leader)
\* variant of create_party_reg without the final mark_dirty
create_party_reg_unmarked(r, leader, id) ==
    IF is_in_party(r, leader) THEN r
    ELSE record_player_name(
            [r EXCEPT !.parties = Put(@, id, Party_create(id, leader)),
                      !.player_to_party = Put(@, leader, id)], leader)

create_party_reg(r, leader, id) ==
    IF is_in_party(r, leader) THEN r
    ELSE mark_dirty(record_player_name(
            [r EXCEPT !.parties = Put(@, id, Party_create(id, leader)),
                      !.player_to_party = Put(@, leader, id)], leader))

\* the part of invite_player that runs on every call: the sweep of expired invites
invite_sweep(r, q, t) ==
    LET expired == expired_invites(r.parties[q], InviteExpirationMs, t)
    IN [r EXCEPT !.parties[q] = clean_expired_invites(@, InviteExpirationMs, t),
                 !.player_invites =
                     Restrict(@, {m \in DOMAIN @ : ~(m \in expired /\ @[m] = q)})]

\* variant of invite_player_ok that admits one invite more than max-pending-invites
invite_player_ok_over_capacity(r, q, player_id, t) ==
    LET r1 == invite_sweep(r, q, t)
    IN /\ ~has_invite(r1.parties[q], player_id)
       /\ Cardinality(DOMAIN r1.parties[q].invites) <= MaxPendingInvites

invite_player_ok(r, q, player_id, t) ==
    LET r1 == invite_sweep(r, q, t)
    IN /\ ~has_invite(r1.parties[q], player_id)
       /\ Cardinality(DOMAIN r1.parties[q].invites) < MaxPendingInvites

invite_player_reg(r, q, player_id, t) ==
    LET r1 == invite_sweep(r, q, t)
    IN IF invite_player_ok(r, q, player_id, t)
       THEN mark_dirty([r1 EXCEPT !.parties[q] = Party_invite_player(@, player_id, t),
                                  !.player_invites = Put(@, player_id, q)])
       ELSE r1

\* variant of invite_expired that already rejects an invite of age exactly T
invite_expired_at_ttl(p, player_id, t) ==
    t - Get(p.invites, player_id, 0) >= InviteExpirationMs

invite_expired(p, player_id, t) ==
    t - Get(p.invites, player_id, 0) > InviteExpirationMs

\* variant of accept_invite_ok that lets a banned player accept
accept_invite_ok_ignores_ban(r, player_id, q, t) ==
    /\ has_invite(r.parties[q], player_id)
    /\ ~invite_expired(r.parties[q], player_id, t)
    /\ Cardinality(r.parties[q].members) < MaxMembers
    /\ ~is_in_party(r, player_id)

accept_invite_ok(r, player_id, q, t) ==
    /\ has_invite(r.parties[q], player_id)
    /\ ~invite_expired(r.parties[q], player_id, t)
    /\ Cardinality(r.parties[q].members) < MaxMembers
    /\ player_id \notin r.parties[q].banned_players
    /\ ~is_in_party(r, player_id)

accept_invite_reg(r, player_id, q, t) ==
    IF ~has_invite(r.parties[q], player_id) THEN r
    ELSE IF invite_expired(r.parties[q], player_id, t)
    THEN mark_dirty([r EXCEPT !.parties[q] = remove_invite(@, player_id),
                              !.player_invites = Pop(@, player_id)])
    ELSE IF ~accept_invite_ok(r, player_id, q, t) THEN r
    ELSE mark_dirty(record_player_name(
            [r EXCEPT !.parties[q] = add_member(@, player_id),
                      !.player_to_party = Put(@, player_id, q),
                      !.player_invites = Pop(@, player_id)], player_id))

\* _pick_new_leader gives the candidates the two loops can return; the first
\* loop walks a set, whose order is not fixed, so any online member may come
\* first.  It is preceded by a variant whose fallback takes the largest identifier.
pick_new_leader_largest(p, online) ==
    IF p.members \cap online # {} THEN p.members \cap online
    ELSE IF p.members # {} THEN {SetMax(p.members)}
    ELSE {None}

pick_new_leader(p, online) ==
    IF p.members \cap online # {} THEN p.members \cap online
    ELSE IF p.members # {} THEN {SetMin(p.members)}
    ELSE {None}

\* variant of leave_party that keeps a party whose last member left
leave_party_keeps_empty(r, player_id, new_leader) ==
    LET q == get_player_party(r, player_id)
        was_leader == is_leader(r.parties[q], player_id)
        r1 == mark_dirty([r EXCEPT !.parties[q] = remove_member(@, player_id),
                                   !.player_to_party = Pop(@, player_id)])
    IN IF q = None THEN r
       ELSE IF was_leader /\ new_leader # None
       THEN mark_dirty([r1 EXCEPT !.parties[q] = transfer_leadership(@, new_leader)])
       ELSE r1

leave_party_reg(r, player_id, new_leader) ==
    LET q == get_player_party(r, player_id)
        was_leader == is_leader(r.parties[q], player_id)
        r1 == mark_dirty([r EXCEPT !.parties[q] = remove_member(@, player_id),
                                   !.player_to_party = Pop(@, player_id)])
    IN IF q = None THEN r
       ELSE IF r1.parties[q].members = {} THEN disband_party_reg(r1, q)
       ELSE IF was_leader /\ new_leader # None
       THEN mark_dirty([r1 EXCEPT !.parties[q] = transfer_leadership(@, new_leader)])
       ELSE r1

kick_player_ok(r, q, player_id) == player_id \in r.parties[q].members
kick_player_reg(r, q, player_id) ==
    LET r1 == mark_dirty([r EXCEPT !.parties[q] = remove_member(@, player_id),
                                   !.player_to_party = Pop(@, player_id)])
    IN IF player_id \notin r.parties[q].members THEN r
       ELSE IF r1.parties[q].members = {} THEN disband_party_reg(r1, q)
       ELSE r1

add_player_to_party_ok(r, player_id, q) ==
    /\ ~is_in_party(r, player_id)
    /\ Cardinality(r.parties[q].members) < MaxMembers

add_player_to_party_reg(r, player_id, q) ==
    IF ~add_player_to_party_ok(r, player_id, q) THEN r
    ELSE mark_dirty(record_player_name(
            [r EXCEPT !.parties[q] = add_member(@, player_id),
                      !.player_to_party = Put(@, player_id, q),
                      !.player_invites = Pop(@, player_id)], player_id))

request_to_join_ok(r, requester_id, q) ==
    /\ requester_id \notin r.parties[q].banned_players
    /\ ~has_join_request(r.parties[q], requester_id)

request_to_join_reg(r, requester_id, q, t) ==
    IF ~request_to_join_ok(r, requester_id, q) THEN r
    ELSE mark_dirty([r EXCEPT !.parties[q] = add_join_request(@, requester_id, t)])

\* accept_join_request drops the request, then returns what add_player_to_party returns
accept_join_request_drop(r, q, requester_id) ==
    mark_dirty([r EXCEPT !.parties[q] = remove_join_request(@, requester_id)])

accept_join_request_ok(r, q, requester_id) ==
    /\ has_join_request(r.parties[q], requester_id)
    /\ add_player_to_party_ok(accept_join_request_drop(r, q, requester_id), requester_id, q)

accept_join_request_reg(r, q, requester_id) ==
    IF ~has_join_request(r.parties[q], requester_id) THEN r
    ELSE add_player_to_party_reg(accept_join_request_drop(r, q, requester_id), requester_id, q)

deny_join_request_ok(r, q, requester_id) == has_join_request(r.parties[q], requester_id)
deny_join_request_reg(r, q, requester_id) ==
    IF ~has_join_request(r.parties[q], requester_id) THEN r
    ELSE mark_dirty([r EXCEPT !.parties[q] = remove_join_request(@, requester_id)])

\* variant of cleanup_expired_invites_reg that leaves player_invites as it is
cleanup_expired_invites_reg_keeps_lookup(r, t) ==
    LET expired(q) == expired_invites(r.parties[q], InviteExpirationMs, t)
        expired_requests(q) == expired_join_requests(r.parties[q], InviteExpirationMs, t)
        changed == \E q \in DOMAIN r.parties : expired(q) # {} \/ expired_requests(q) # {}
        r1 == [r EXCEPT !.parties =
                  [q \in DOMAIN @ |->
                     clean_expired_join_requests(
                        clean_expired_invites(@[q], InviteExpirationMs, t),
                        InviteExpirationMs, t)]]
    IN IF changed THEN mark_dirty(r1) ELSE r1

cleanup_expired_invites_reg(r, t) ==
    LET expired(q) == expired_invites(r.parties[q], InviteExpirationMs, t)
        expired_requests(q) == expired_join_requests(r.parties[q], InviteExpirationMs, t)
        changed == \E q \in DOMAIN r.parties : expired(q) # {} \/ expired_requests(q) # {}
        r1 == [r EXCEPT !.parties =
                  [q \in DOMAIN @ |->
                     clean_expired_join_requests(
                        clean_expired_invites(@[q], InviteExpirationMs, t),
                        InviteExpirationMs, t)],
                        !.player_invites =
                  Restrict(@, {m \in DOMAIN @ :
                     ~\E q \in DOMAIN r.parties : m \in expired(q) /\ @[m] = q})]
    IN IF changed THEN mark_dirty(r1) ELSE r1


\* ---- the registry as a state machine ----
\* what the last call reported: the operation's name when it succeeded,
\* "rejected" when it returned False or None, "none" when it did nothing
Res(op, ok) == IF ok THEN op ELSE "rejected"

\* every call counts against the length of the explored call sequences
Count == ops < MaxOps /\ ops' = ops + 1

\* the periodic tasks of the manager and, with the plugin's autosave task, all
\* the tasks that touch the registry; only start, stop, reload, shutdown and
\* the plugin's enable and disable paths touch them and only shutdown writes
\* shutdown_log
TaskNames == {"_marker_task", "_playtime_task", "_cleanup_task"}
AllTasks == TaskNames \cup {"_autosave_task"}
NoTasks == UNCHANGED <<task_handle, scheduled, shutdown_log>>

\* stop: cancel every task whose handle is held, and forget the handle; it is
\* preceded by a variant that forgets the playtime task without cancelling it
stop_scheduled_skips_playtime(handle, sched) ==
    [t \in AllTasks |-> IF t \in TaskNames /\ handle[t] /\ t # "_playtime_task"
                        THEN sched[t] - 1 ELSE sched[t]]

stop_scheduled(handle, sched) ==
    [t \in AllTasks |-> IF t \in TaskNames /\ handle[t] THEN sched[t] - 1 ELSE sched[t]]

\* the handles after stop (held = FALSE) and after start (held = TRUE)
manager_handles(handle, held) ==
    [t \in AllTasks |-> IF t \in TaskNames THEN held ELSE handle[t]]

\* start: stop, then schedule each task and keep its handle (with the default
\* configuration all three are scheduled); it is preceded by a variant that
\* schedules without stopping first
start_scheduled_without_stop(handle, sched) ==
    [t \in AllTasks |-> IF t \in TaskNames THEN sched[t] + 1 ELSE sched[t]]

start_scheduled(handle, sched) ==
    [t \in AllTasks |-> IF t \in TaskNames THEN stop_scheduled(handle, sched)[t] + 1
                        ELSE sched[t]]

\* start under a configuration that leaves tasks out: _start_marker_task
\* returns early when party.marker-update-interval <= 0 and
\* _start_playtime_task when party.track-playtime is off; _start_cleanup_task
\* always schedules
TaskConfigs == {S \cup {"_cleanup_task"} : S \in SUBSET {"_marker_task", "_playtime_task"}}

configured_scheduled(handle, sched, enabled) ==
    [t \in AllTasks |-> IF t \in enabled THEN stop_scheduled(handle, sched)[t] + 1
                        ELSE stop_scheduled(handle, sched)[t]]

configured_handles(handle, enabled) ==
    [t \in AllTasks |-> IF t \in TaskNames THEN t \in enabled ELSE handle[t]]

\* _cancel_autosave_task and _start_autosave_task of the plugin
cancel_autosave_scheduled(handle, sched) ==
    [sched EXCEPT !["_autosave_task"] = IF handle["_autosave_task"] THEN @ - 1 ELSE @]

cancel_autosave_handles(handle) == [handle EXCEPT !["_autosave_task"] = FALSE]

start_autosave_scheduled(handle, sched) ==
    [cancel_autosave_scheduled(handle, sched) EXCEPT !["_autosave_task"] = @ + 1]

\* invite_age of every call that is not an accept_invite on a held invite
NoAge == -1

Init ==
    /\ parties = EmptyMap
    /\ player_to_party = EmptyMap
    /\ player_invites = EmptyMap
    /\ player_names = EmptyMap
    /\ dirty = FALSE
    /\ data_file = << >>
    /\ NoSaveYet
    /\ now = 0
    /\ next_id = 1
    /\ result = "none"
    /\ invite_age = NoAge
    /\ task_handle = [t \in AllTasks |-> FALSE]
    /\ scheduled = [t \in AllTasks |-> 0]
    /\ shutdown_log = << >>
    /\ ops = 0

Tick ==
    /\ Count
    /\ NoTasks
    /\ invite_age' = NoAge
    /\ now < MaxTime
    /\ now' = now + 1
    /\ result' = Res("tick", TRUE)
    /\ UNCHANGED <<parties, player_to_party, player_invites, player_names, dirty,
                   data_file, save_files, next_id>>

create_party(leader) ==
    /\ Count
    /\ NoTasks
    /\ invite_age' = NoAge
    /\ next_id <= MaxParties
    /\ result' = Res("create_party", create_party_ok(Reg, leader))
    /\ next_id' = IF create_party_ok(Reg, leader) THEN next_id + 1 ELSE next_id
    /\ SetReg(create_party_reg(Reg, leader, next_id))
    /\ UNCHANGED <<data_file, save_files, now>>

disband_party(party_id) ==
    /\ Count
    /\ NoTasks
    /\ invite_age' = NoAge
    /\ result' = Res("disband_party", party_id \in DOMAIN parties)
    /\ SetReg(disband_party_reg(Reg, party_id))
    /\ UNCHANGED <<data_file, save_files, now, next_id>>

\* check_party_cleanup: `option` is party.disband-when-all-offline (off by
\* default), `online` the players server.get_player finds.  It is preceded by
\* a variant that disbands as soon as one member is offline.
check_party_cleanup_any_offline(party_id, option, online) ==
    /\ Count
    /\ NoTasks
    /\ invite_age' = NoAge
    /\ result' = Res("check_party_cleanup", TRUE)
    /\ SetReg(IF ~option \/ party_id \notin DOMAIN parties THEN Reg
              ELSE IF ~(parties[party_id].members \subseteq online)
                   THEN disband_party_reg(Reg, party_id)
                   ELSE Reg)
    /\ UNCHANGED <<data_file, save_files, now, next_id>>

check_party_cleanup(party_id, option, online) ==
    /\ Count
    /\ NoTasks
    /\ invite_age' = NoAge
    /\ result' = Res("check_party_cleanup", TRUE)
    /\ SetReg(IF ~option \/ party_id \notin DOMAIN parties THEN Reg
              ELSE IF parties[party_id].members \cap online = {}
                   THEN disband_party_reg(Reg, party_id)
                   ELSE Reg)
    /\ UNCHANGED <<data_file, save_files, now, next_id>>

invite_player(q, player_id) ==
    /\ Count
    /\ NoTasks
    /\ invite_age' = NoAge
    /\ result' = Res("invite_player", invite_player_ok(Reg, q, player_id, now))
    /\ SetReg(invite_player_reg(Reg, q, player_id, now))
    /\ UNCHANGED <<data_file, save_files, now, next_id>>

\* what get_pending_invite returns: the party the index names, when it is held
pending_invite(player_id) ==
    LET party_id == Get(player_invites, player_id, None)
    IN IF party_id = None \/ party_id \notin DOMAIN parties THEN None ELSE party_id

get_pending_invite(player_id) ==
    LET party_id == Get(player_invites, player_id, None)
    IN /\ Count
       /\ NoTasks
       /\ invite_age' = NoAge
       /\ player_invites' = IF party_id # None /\ party_id \notin DOMAIN parties
                            THEN Pop(player_invites, player_id) ELSE player_invites
       /\ result' = IF party_id \in DOMAIN parties THEN "get_pending_invite" ELSE "none"
       /\ UNCHANGED <<parties, player_to_party, player_names, dirty, data_file, save_files, now, next_id>>

accept_invite(player_id, q) ==
    /\ Count
    /\ NoTasks
    /\ invite_age' = IF has_invite(parties[q], player_id)
                     THEN now - parties[q].invites[player_id] ELSE NoAge
    /\ result' = Res("accept_invite", accept_invite_ok(Reg, player_id, q, now))
    /\ SetReg(accept_invite_reg(Reg, player_id, q, now))
    /\ UNCHANGED <<data_file, save_files, now, next_id>>

leave_party(player_id) ==
    LET q == get_player_party(Reg, player_id)
    IN /\ Count
       /\ NoTasks
       /\ invite_age' = NoAge
       /\ \E new_leader \in (IF q = None THEN {None}
                             ELSE UNION {pick_new_leader(remove_member(parties[q], player_id), online) :
                                           online \in SUBSET Players}) :
             SetReg(leave_party_reg(Reg, player_id, new_leader))
       /\ result' = Res("leave_party", q # None)
       /\ UNCHANGED <<data_file, save_files, now, next_id>>

kick_player(q, player_id) ==
    /\ Count
    /\ NoTasks
    /\ invite_age' = NoAge
    /\ result' = Res("kick_player", kick_player_ok(Reg, q, player_id))
    /\ SetReg(kick_player_reg(Reg, q, player_id))
    /\ UNCHANGED <<data_file, save_files, now, next_id>>

add_player_to_party(player_id, q) ==
    /\ Count
    /\ NoTasks
    /\ invite_age' = NoAge
    /\ result' = Res("add_player_to_party", add_player_to_party_ok(Reg, player_id, q))
    /\ SetReg(add_player_to_party_reg(Reg, player_id, q))
    /\ UNCHANGED <<data_file, save_files, now, next_id>>

request_to_join(requester_id, q) ==
    /\ Count
    /\ NoTasks
    /\ invite_age' = NoAge
    /\ result' = Res("request_to_join", request_to_join_ok(Reg, requester_id, q))
    /\ SetReg(request_to_join_reg(Reg, requester_id, q, now))
    /\ UNCHANGED <<data_file, save_files, now, next_id>>

accept_join_request(q, requester_id) ==
    /\ Count
    /\ NoTasks
    /\ invite_age' = NoAge
    /\ result' = Res("accept_join_request", accept_join_request_ok(Reg, q, requester_id))
    /\ SetReg(accept_join_request_reg(Reg, q, requester_id))
    /\ UNCHANGED <<data_file, save_files, now, next_id>>

deny_join_request(q, requester_id) ==
    /\ Count
    /\ NoTasks
    /\ invite_age' = NoAge
    /\ result' = Res("deny_join_request", deny_join_request_ok(Reg, q, requester_id))
    /\ SetReg(deny_join_request_reg(Reg, q, requester_id))
    /\ UNCHANGED <<data_file, save_files, now, next_id>>

cleanup_expired_invites ==
    /\ Count
    /\ NoTasks
    /\ invite_age' = NoAge
    /\ result' = Res("cleanup_expired_invites", TRUE)
    /\ SetReg(cleanup_expired_invites_reg(Reg, now))
    /\ UNCHANGED <<data_file, save_files, now, next_id>>

\* save_all: storage.save either replaces the data file or raises and leaves it;
\* it is preceded by a variant that clears the dirty flag also when storage.save raises
save_all_clears_on_failure(force, raises) ==
    /\ Count
    /\ NoTasks
    /\ invite_age' = NoAge
    /\ IF ~force /\ ~dirty THEN UNCHANGED <<data_file, save_files, dirty>>
       ELSE IF raises THEN data_file' = data_file /\ dirty' = FALSE /\ UNCHANGED save_files
       ELSE /\ storage_save(storage_payload(parties, player_names))
            /\ dirty' = FALSE
    /\ result' = IF (force \/ dirty) /\ ~raises THEN "save_all" ELSE "none"
    /\ UNCHANGED <<parties, player_to_party, player_invites, player_names, now, next_id>>

save_all(force, raises) ==
    /\ Count
    /\ NoTasks
    /\ invite_age' = NoAge
    /\ IF ~force /\ ~dirty THEN UNCHANGED <<data_file, save_files, dirty>>
       ELSE IF raises THEN UNCHANGED <<data_file, save_files, dirty>>
       ELSE /\ storage_save(storage_payload(parties, player_names))
            /\ dirty' = FALSE
    /\ result' = IF (force \/ dirty) /\ ~raises THEN "save_all" ELSE "none"
    /\ UNCHANGED <<parties, player_to_party, player_invites, player_names, now, next_id>>

\* ---- save_all taken step by step: PartyStorage.save on the file system ----
\* save_pc is "idle" between saves, then "backup" (the data file exists and is
\* about to be copied), "temp" (the temporary file is about to be written) and
\* "replace" (the temporary file is about to be renamed over the data file).
\* The registry does not change while a save is in progress.
SaveSteps == UNCHANGED <<parties, player_to_party, player_invites, player_names,
                         now, next_id, invite_age, ops>>

\* save_all's guard, then the start of storage.save: the backup is taken only
\* when the data file exists
save_begin(force) ==
    /\ save_pc = "idle"
    /\ force \/ dirty
    /\ Count
    /\ NoTasks
    /\ invite_age' = NoAge
    /\ save_pc' = IF data_file # << >> THEN "backup" ELSE "temp"
    /\ backup_error' = FALSE
    /\ NoTables
    /\ result' = "none"
    /\ UNCHANGED <<parties, player_to_party, player_invites, player_names, dirty,
                   data_file, backup_file, temp_file, now, next_id>>

\* the backup copy; when it raises the backup is as it was or cut short, and
\* the exception is swallowed.  It is preceded by a variant that lets the
\* exception leave save.
save_backup_raises(outcome) ==
    /\ save_pc = "backup"
    /\ NoTasks
    /\ SaveSteps
    /\ NoTables
    /\ backup_file' = CASE outcome = "ok" -> data_file
                        [] outcome = "unwritten" -> backup_file
                        [] outcome = "truncated" -> <<Truncated>>
    /\ backup_error' = (outcome # "ok")
    /\ save_pc' = IF outcome = "ok" THEN "temp" ELSE "idle"
    /\ UNCHANGED <<dirty, data_file, temp_file, result>>

save_backup(outcome) ==
    /\ save_pc = "backup"
    /\ NoTasks
    /\ SaveSteps
    /\ NoTables
    /\ backup_file' = CASE outcome = "ok" -> data_file
                        [] outcome = "unwritten" -> backup_file
                        [] outcome = "truncated" -> <<Truncated>>
    /\ backup_error' = (outcome # "ok")
    /\ save_pc' = "temp"
    /\ UNCHANGED <<dirty, data_file, temp_file, result>>

\* json.dump into the temporary file; when it raises the file is cut short
\* and the exception leaves save and save_all.  It is preceded by a variant
\* that goes on to the rename after a failed write.
save_write_temp_goes_on(fails) ==
    /\ save_pc = "temp"
    /\ NoTasks
    /\ SaveSteps
    /\ NoTables
    /\ temp_file' = IF fails THEN <<Truncated>>
                    ELSE <<storage_payload(parties, player_names)>>
    /\ save_pc' = "replace"
    /\ UNCHANGED <<dirty, data_file, backup_file, backup_error, result>>

save_write_temp(fails) ==
    /\ save_pc = "temp"
    /\ NoTasks
    /\ SaveSteps
    /\ NoTables
    /\ temp_file' = IF fails THEN <<Truncated>>
                    ELSE <<storage_payload(parties, player_names)>>
    /\ save_pc' = IF fails THEN "idle" ELSE "replace"
    /\ UNCHANGED <<dirty, data_file, backup_file, backup_error, result>>

\* temp_file.replace(data_file), one rename, then save_all clears the dirty
\* flag; when the rename raises no file changes
save_replace(fails) ==
    /\ save_pc = "replace"
    /\ NoTasks
    /\ SaveSteps
    /\ NoTables
    /\ save_pc' = "idle"
    /\ IF fails THEN UNCHANGED <<data_file, temp_file, dirty, result>>
       ELSE /\ data_file' = temp_file
            /\ temp_file' = << >>
            /\ dirty' = FALSE
            /\ result' = "save_all"
    /\ UNCHANGED <<backup_file, backup_error>>

\* the process is stopped during a save, in the middle of the write of the
\* current step or before it, and started again: the new PartyManager loads
\* what the data file holds
interrupt_save(mid_write) ==
    LET failed == ~IsComplete(data_file) \/ storage_load_raises(data_file)
    IN /\ save_pc # "idle"
       /\ NoTasks
       /\ NoTables
       /\ backup_file' = IF mid_write /\ save_pc = "backup" THEN <<Truncated>>
                         ELSE backup_file
       /\ temp_file' = IF mid_write /\ save_pc = "temp" THEN <<Truncated>> ELSE temp_file
       /\ save_pc' = "idle"
       /\ SetReg(rebuild_indexes(
             [parties |-> IF failed THEN EmptyMap ELSE storage_load_parties(data_file),
              player_to_party |-> EmptyMap, player_invites |-> EmptyMap,
              player_names |-> IF failed THEN EmptyMap ELSE storage_load_names(data_file),
              dirty |-> FALSE]))
       /\ result' = Res("load_all", TRUE)
       /\ UNCHANGED <<data_file, backup_error, now, next_id, invite_age, ops>>

\* ---- save_all with the MySQL backend: MySQLPartyStorage.save ----
\* the rows save builds: one per party, keyed by str(party.id), and one per
\* non-empty name
party_rows(ps) == StrKeys([q \in DOMAIN ps |-> to_dict(ps[q])])
name_rows(names) == StrKeys(NonEmptyNames(names))

\* INSERT ... ON DUPLICATE KEY UPDATE of the rows whose key is in `done`
Upsert(table, rows, done) ==
    [k \in DOMAIN table \cup done |-> IF k \in done THEN rows[k] ELSE table[k]]

\* save_pc is "parties", "delete", "names" and "commit" before the statement
\* of that name, and "rollback" after a statement has raised.  The statements
\* run in one transaction (autocommit is off, the tables are InnoDB): other
\* connections see party_table and names_table, the transaction works on tx.
MySQLSteps ==
    /\ NoTasks
    /\ UNCHANGED <<parties, player_to_party, player_invites, player_names, now,
                   next_id, invite_age, ops, data_file, backup_file, temp_file,
                   backup_error, config, backend, cooldowns>>

\* save_all's guard, then the start of save on a connection
mysql_save_begin(force) ==
    /\ save_pc = "idle"
    /\ force \/ dirty
    /\ Count
    /\ NoTasks
    /\ invite_age' = NoAge
    /\ save_pc' = "parties"
    /\ tx' = [parties |-> party_table, names |-> names_table]
    /\ result' = "none"
    /\ UNCHANGED <<parties, player_to_party, player_invites, player_names, dirty,
                   data_file, backup_file, temp_file, backup_error, party_table,
                   names_table, config, backend, cooldowns, now, next_id>>

\* executemany(upsert_sql, party_rows), skipped when there are no rows; it
\* raises after the rows in `done` when `done` is not all of them
mysql_upsert_parties(done) ==
    LET rows == party_rows(parties)
    IN /\ save_pc = "parties"
       /\ done \subseteq DOMAIN rows
       /\ MySQLSteps
       /\ tx' = [tx EXCEPT !.parties = Upsert(@, rows, done)]
       /\ save_pc' = IF done = DOMAIN rows THEN "delete" ELSE "rollback"
       /\ UNCHANGED <<dirty, party_table, names_table, result>>

\* DELETE ... WHERE party_id NOT IN (ids), or DELETE of every row when there
\* are no parties.  It is preceded by a variant that deletes nothing.
mysql_delete_missing_keeps_rows(fails) ==
    /\ save_pc = "delete"
    /\ MySQLSteps
    /\ tx' = tx
    /\ save_pc' = IF fails THEN "rollback" ELSE "names"
    /\ UNCHANGED <<dirty, party_table, names_table, result>>

mysql_delete_missing(fails) ==
    /\ save_pc = "delete"
    /\ MySQLSteps
    /\ tx' = IF fails THEN tx
             ELSE [tx EXCEPT !.parties = Restrict(@, DOMAIN party_rows(parties))]
    /\ save_pc' = IF fails THEN "rollback" ELSE "names"
    /\ UNCHANGED <<dirty, party_table, names_table, result>>

\* executemany(upsert_names_sql, name_rows), skipped when there are no rows
mysql_upsert_names(done) ==
    LET rows == name_rows(player_names)
    IN /\ save_pc = "names"
       /\ done \subseteq DOMAIN rows
       /\ MySQLSteps
       /\ tx' = [tx EXCEPT !.names = Upsert(@, rows, done)]
       /\ save_pc' = IF done = DOMAIN rows THEN "commit" ELSE "rollback"
       /\ UNCHANGED <<dirty, party_table, names_table, result>>

\* connection.commit(), then save_all clears the dirty flag
mysql_commit(fails) ==
    /\ save_pc = "commit"
    /\ MySQLSteps
    /\ IF fails
       THEN /\ save_pc' = "rollback"
            /\ UNCHANGED <<dirty, party_table, names_table, tx, result>>
       ELSE /\ save_pc' = "idle"
            /\ party_table' = tx.parties
            /\ names_table' = tx.names
            /\ tx' = NoTx
            /\ dirty' = FALSE
            /\ result' = "save_all"

\* the except clause: connection.rollback(), and the exception leaves save;
\* save_all logs it and leaves the dirty flag as it is
mysql_rollback ==
    /\ save_pc = "rollback"
    /\ MySQLSteps
    /\ save_pc' = "idle"
    /\ tx' = NoTx
    /\ result' = "save_raised"
    /\ UNCHANGED <<dirty, party_table, names_table>>

\* the configuration file is edited and read again
set_config(c) ==
    /\ Count
    /\ NoTasks
    /\ invite_age' = NoAge
    /\ result' = Res("set_config", TRUE)
    /\ config' = c
    /\ UNCHANGED <<parties, player_to_party, player_invites, player_names, dirty,
                   data_file, backup_file, temp_file, save_pc, backup_error,
                   party_table, names_table, tx, backend, cooldowns, now, next_id>>

\* create_storage, as the constructor and reload call it
create_storage(init_raises) ==
    /\ Count
    /\ NoTasks
    /\ invite_age' = NoAge
    /\ result' = Res("create_storage", TRUE)
    /\ backend' = create_storage_backend(config, init_raises)
    /\ UNCHANGED <<parties, player_to_party, player_invites, player_names, dirty,
                   data_file, backup_file, temp_file, save_pc, backup_error,
                   party_table, names_table, tx, config, cooldowns, now, next_id>>

\* ---- command cooldown ----
CooldownSteps ==
    /\ Count
    /\ NoTasks
    /\ invite_age' = NoAge
    /\ UNCHANGED <<parties, player_to_party, player_invites, player_names, dirty,
                   data_file, backup_file, temp_file, save_pc, backup_error,
                   party_table, names_table, tx, config, backend, next_id>>

\* the clock, up to MaxCooldownTime
cooldown_tick ==
    /\ NoTasks
    /\ now < MaxCooldownTime
    /\ now' = now + 1
    /\ result' = Res("tick", TRUE)
    /\ UNCHANGED <<parties, player_to_party, player_invites, player_names, dirty,
                   data_file, save_files, next_id, invite_age, ops>>

update_command_cooldown(player_id) ==
    /\ CooldownSteps
    /\ last_command_use_ms' = Put(last_command_use_ms, player_id, now)
    /\ result' = Res("update_command_cooldown", TRUE)
    /\ UNCHANGED <<cooldown_reply, now>>

\* is_on_command_cooldown and remaining_command_cooldown asked one after the
\* other, as the command handlers do, with security.command-cooldown set to
\* cooldown_seconds
ask_command_cooldown(player_id, cooldown_seconds) ==
    /\ CooldownSteps
    /\ cooldown_reply' =
          [on |-> is_on_command_cooldown(last_command_use_ms, cooldown_seconds,
                                         player_id, now),
           remaining |-> remaining_command_cooldown(last_command_use_ms,
                                                    cooldown_seconds, player_id, now),
           player |-> player_id, cooldown |-> cooldown_seconds]
    /\ result' = Res("is_on_command_cooldown", TRUE)
    /\ UNCHANGED <<last_command_use_ms, now>>

\* cleanup_player_state, called when the player quits: the use is forgotten
cleanup_player_state(player_id) ==
    /\ CooldownSteps
    /\ last_command_use_ms' = Pop(last_command_use_ms, player_id)
    /\ result' = Res("cleanup_player_state", TRUE)
    /\ UNCHANGED <<cooldown_reply, now>>

\* load_all: storage.load gives the file's parties, or nothing when the file
\* is missing or unreadable; when storage.load raises, load_all starts from an
\* empty registry
\* (preceded by a variant in which a failed load keeps the parties and names
\* the manager held)
load_all_keeps_on_failure(unreadable) ==
    /\ Count
    /\ NoTasks
    /\ invite_age' = NoAge
    /\ LET failed == unreadable \/ storage_load_raises(data_file)
       IN SetReg(rebuild_indexes(
             [parties |-> IF failed THEN parties ELSE storage_load_parties(data_file),
              player_to_party |-> EmptyMap, player_invites |-> EmptyMap,
              player_names |-> IF failed THEN player_names
                               ELSE storage_load_names(data_file),
              dirty |-> FALSE]))
    /\ result' = Res("load_all", TRUE)
    /\ UNCHANGED <<data_file, save_files, now, next_id>>

load_all(unreadable) ==
    /\ Count
    /\ NoTasks
    /\ invite_age' = NoAge
    /\ LET failed == unreadable \/ storage_load_raises(data_file)
       IN SetReg(rebuild_indexes(
             [parties |-> IF failed THEN EmptyMap ELSE storage_load_parties(data_file),
              player_to_party |-> EmptyMap, player_invites |-> EmptyMap,
              player_names |-> IF failed THEN EmptyMap ELSE storage_load_names(data_file),
              dirty |-> FALSE]))
    /\ result' = Res("load_all", TRUE)
    /\ UNCHANGED <<data_file, save_files, now, next_id>>

\* reload: a forced save_all, a fresh storage backend on the same file,
\* load_all and start
reload(raises, unreadable) ==
    LET file == IF raises THEN data_file
                ELSE <<storage_payload(parties, player_names)>>
        failed == unreadable \/ storage_load_raises(file)
    IN /\ Count
       /\ invite_age' = NoAge
       /\ IF raises THEN UNCHANGED <<data_file, save_files>>
          ELSE storage_save(storage_payload(parties, player_names))
       /\ SetReg(rebuild_indexes(
             [parties |-> IF failed THEN EmptyMap ELSE storage_load_parties(file),
              player_to_party |-> EmptyMap, player_invites |-> EmptyMap,
              player_names |-> IF failed THEN EmptyMap ELSE storage_load_names(file),
              dirty |-> FALSE]))
       /\ task_handle' = manager_handles(task_handle, TRUE)
       /\ scheduled' = start_scheduled(task_handle, scheduled)
       /\ result' = Res("reload", TRUE)
       /\ UNCHANGED <<now, next_id, shutdown_log>>

\* start: stop, then schedule the three tasks and keep their handles
start ==
    /\ Count
    /\ invite_age' = NoAge
    /\ result' = Res("start", TRUE)
    /\ task_handle' = manager_handles(task_handle, TRUE)
    /\ scheduled' = start_scheduled(task_handle, scheduled)
    /\ UNCHANGED <<parties, player_to_party, player_invites, player_names, dirty,
                   data_file, save_files, now, next_id, shutdown_log>>

\* start with the tasks the configuration enables
start_configured(enabled) ==
    /\ Count
    /\ invite_age' = NoAge
    /\ result' = Res("start", TRUE)
    /\ task_handle' = configured_handles(task_handle, enabled)
    /\ scheduled' = configured_scheduled(task_handle, scheduled, enabled)
    /\ UNCHANGED <<parties, player_to_party, player_invites, player_names, dirty,
                   data_file, save_files, now, next_id, shutdown_log>>

stop ==
    /\ Count
    /\ invite_age' = NoAge
    /\ result' = Res("stop", TRUE)
    /\ task_handle' = manager_handles(task_handle, FALSE)
    /\ scheduled' = stop_scheduled(task_handle, scheduled)
    /\ UNCHANGED <<parties, player_to_party, player_invites, player_names, dirty,
                   data_file, save_files, now, next_id, shutdown_log>>

\* shutdown: stop, then a forced save_all whose storage.save may raise, then
\* storage.close; handle and sched are the tasks as the caller leaves them
shutdown(handle, sched, raises) ==
    /\ Count
    /\ invite_age' = NoAge
    /\ result' = Res("shutdown", TRUE)
    /\ task_handle' = manager_handles(handle, FALSE)
    /\ scheduled' = stop_scheduled(handle, sched)
    /\ IF raises THEN UNCHANGED <<data_file, save_files, dirty>>
       ELSE /\ storage_save(storage_payload(parties, player_names))
            /\ dirty' = FALSE
    /\ shutdown_log' = <<"stop", "save_all", "close">>
    /\ UNCHANGED <<parties, player_to_party, player_invites, player_names, now, next_id>>

\* on_disable, the only caller of shutdown: cancel the autosave task, then
\* shut the manager down (the HUD, scoreboard and show managers it stops in
\* between do not touch the registry)
on_disable(raises) ==
    shutdown(cancel_autosave_handles(task_handle),
             cancel_autosave_scheduled(task_handle, scheduled), raises)

\* _start_autosave_task, called when the plugin is enabled and after a reload
start_autosave_task ==
    /\ Count
    /\ invite_age' = NoAge
    /\ result' = Res("start_autosave_task", TRUE)
    /\ task_handle' = [task_handle EXCEPT !["_autosave_task"] = TRUE]
    /\ scheduled' = start_autosave_scheduled(task_handle, scheduled)
    /\ UNCHANGED <<parties, player_to_party, player_invites, player_names, dirty,
                   data_file, save_files, now, next_id, shutdown_log>>

\* the callbacks of the periodic tasks; the scheduler runs a callback only
\* while an instance of its task is live.  _update_markers touches only marker
\* positions; _cleanup_memory forgets the command uses older than one hour
\* (and teleport uses and marker positions, which are not kept here);
\* _update_playtime marks the registry dirty when some party has a member
\* online (the play time it adds is not among the Party fields kept here).
update_markers ==
    /\ scheduled["_marker_task"] > 0
    /\ Count
    /\ NoTasks
    /\ invite_age' = NoAge
    /\ result' = Res("update_markers", TRUE)
    /\ UNCHANGED <<parties, player_to_party, player_invites, player_names, dirty,
                   data_file, save_files, now, next_id>>

update_playtime(online) ==
    /\ scheduled["_playtime_task"] > 0
    /\ Count
    /\ NoTasks
    /\ invite_age' = NoAge
    /\ result' = Res("update_playtime", TRUE)
    /\ dirty' = (dirty \/ \E q \in DOMAIN parties : parties[q].members \cap online # {})
    /\ UNCHANGED <<parties, player_to_party, player_invites, player_names,
                   data_file, save_files, now, next_id>>

\* the autosave callback without the count of calls: cleanup_expired_invites,
\* then save_all(), which leaves the dirty flag set when storage.save raises.
\* It is preceded by a variant whose save_all clears the flag in that case too.
periodic_maintenance_clears_on_failure(raises) ==
    LET r == cleanup_expired_invites_reg(Reg, now)
    IN /\ scheduled["_autosave_task"] > 0
       /\ NoTasks
       /\ invite_age' = NoAge
       /\ result' = Res("run_periodic_maintenance", TRUE)
       /\ IF r.dirty /\ ~raises
          THEN /\ storage_save(storage_payload(r.parties, r.player_names))
               /\ SetReg([r EXCEPT !.dirty = FALSE])
          ELSE /\ SetReg([r EXCEPT !.dirty = FALSE])
               /\ UNCHANGED <<data_file, save_files>>
       /\ UNCHANGED <<now, next_id>>

periodic_maintenance(raises) ==
    LET r == cleanup_expired_invites_reg(Reg, now)
    IN /\ scheduled["_autosave_task"] > 0
       /\ NoTasks
       /\ invite_age' = NoAge
       /\ result' = Res("run_periodic_maintenance", TRUE)
       /\ IF r.dirty /\ ~raises
          THEN /\ storage_save(storage_payload(r.parties, r.player_names))
               /\ SetReg([r EXCEPT !.dirty = FALSE])
          ELSE /\ SetReg(r)
               /\ UNCHANGED <<data_file, save_files>>
       /\ UNCHANGED <<now, next_id>>

\* the autosave callback as one of the counted calls
run_periodic_maintenance(raises) == Count /\ periodic_maintenance(raises)

\* the autosave callback as the scheduler keeps invoking it, every
\* auto-save-interval ticks for as long as the task is scheduled
scheduler_fires(raises) == periodic_maintenance(raises) /\ UNCHANGED ops

cleanup_memory ==
    /\ scheduled["_cleanup_task"] > 0
    /\ Count
    /\ NoTasks
    /\ invite_age' = NoAge
    /\ result' = Res("cleanup_memory", TRUE)
    /\ last_command_use_ms' =
          Restrict(last_command_use_ms,
                   {p \in DOMAIN last_command_use_ms :
                       last_command_use_ms[p] >= now - RetentionMs})
    /\ UNCHANGED <<parties, player_to_party, player_invites, player_names, dirty,
                   data_file, backup_file, temp_file, save_pc, backup_error,
                   party_table, names_table, tx, config, backend, cooldown_reply,
                   now, next_id>>

\* get_player_name: the name of an online player is stored and returned, that
\* of an offline player is looked up; the dirty flag is not touched
get_player_name(player_id, online) ==
    /\ Count
    /\ NoTasks
    /\ invite_age' = NoAge
    /\ result' = Res("get_player_name", TRUE)
    /\ player_names' = IF online THEN Put(player_names, player_id, PlayerName(player_id))
                       ELSE player_names
    /\ UNCHANGED <<parties, player_to_party, player_invites, dirty, data_file, save_files, now, next_id>>

\* the operations on membership, invites and join requests
NextMembership ==
    \/ \E p \in Players : create_party(p)
    \/ \E q \in PartyIds : disband_party(q)
    \/ \E q \in DOMAIN parties, p \in Players : invite_player(q, p)
    \/ \E q \in DOMAIN parties, p \in Players : accept_invite(p, q)
    \/ \E p \in Players : leave_party(p)
    \/ \E q \in DOMAIN parties, p \in Players : kick_player(q, p)
    \/ \E q \in DOMAIN parties, p \in Players : add_player_to_party(p, q)
    \/ \E q \in DOMAIN parties, p \in Players : request_to_join(p, q)
    \/ \E q \in DOMAIN parties, p \in Players : accept_join_request(q, p)
    \/ \E q \in DOMAIN parties, p \in Players : deny_join_request(q, p)

\* the membership operations with the data file written and read back
NextStored ==
    \/ NextMembership
    \/ \E raises \in BOOLEAN : save_all(TRUE, raises)
    \/ \E unreadable \in BOOLEAN : load_all(unreadable)

SpecStored == Init /\ [][NextStored]_vars

Next ==
    \/ NextMembership
    \/ Tick
    \/ \E p \in Players : get_pending_invite(p)
    \/ cleanup_expired_invites
    \/ \E force \in BOOLEAN, raises \in BOOLEAN : save_all(force, raises)
    \/ \E unreadable \in BOOLEAN : load_all(unreadable)
    \/ \E raises \in BOOLEAN, unreadable \in BOOLEAN : reload(raises, unreadable)

Spec == Init /\ [][Next]_vars


\* ---- Party mutators called on a party held in `parties` ----
SetParty(q, party) ==
    /\ parties' = [parties EXCEPT ![q] = party]
    /\ UNCHANGED <<player_to_party, player_invites, player_names, dirty,
                   data_file, save_files, now, next_id>>

Party_set_role(q, player_id, role) ==
    /\ Count
    /\ NoTasks
    /\ invite_age' = NoAge
    /\ SetParty(q, set_role(parties[q], player_id, role))
    /\ result' = "none"

Party_transfer_leadership(q, new_leader_id) ==
    /\ Count
    /\ NoTasks
    /\ invite_age' = NoAge
    /\ SetParty(q, transfer_leadership(parties[q], new_leader_id))
    /\ result' = Res("transfer_leadership", transfer_leadership_ok(parties[q], new_leader_id))

Party_add_member(q, player_id) ==
    /\ Count
    /\ NoTasks
    /\ invite_age' = NoAge
    /\ SetParty(q, add_member(parties[q], player_id))
    /\ result' = "none"

Party_remove_member(q, player_id) ==
    /\ Count
    /\ NoTasks
    /\ invite_age' = NoAge
    /\ SetParty(q, remove_member(parties[q], player_id))
    /\ result' = "none"

Party_ban_player(q, player_id) ==
    /\ Count
    /\ NoTasks
    /\ invite_age' = NoAge
    /\ SetParty(q, ban_player(parties[q], player_id))
    /\ result' = "none"

Party_unban_player(q, player_id) ==
    /\ Count
    /\ NoTasks
    /\ invite_age' = NoAge
    /\ SetParty(q, unban_player(parties[q], player_id))
    /\ result' = "none"

\* Party.claim_daily_reward at a clock reading of timestamp_ms
Party_claim_daily_reward(q, player_id, timestamp_ms) ==
    /\ Count
    /\ NoTasks
    /\ invite_age' = NoAge
    /\ SetParty(q, claim_daily_reward(parties[q], player_id, timestamp_ms))
    /\ result' = Res("claim_daily_reward", TRUE)

\* _party_daily at a clock reading of timestamp_ms, not before the last
\* reading: the claim is made only by a player in a party and only when
\* can_claim_daily_reward lets that player claim, and is followed by mark_dirty
party_daily(player_id, timestamp_ms) ==
    LET q == get_player_party(Reg, player_id)
        ok == IF q = None THEN FALSE
              ELSE can_claim_daily_reward(parties[q], player_id, timestamp_ms)
    IN /\ Count
       /\ NoTasks
       /\ invite_age' = NoAge
       /\ timestamp_ms >= now
       /\ now' = timestamp_ms
       /\ result' = Res("party_daily", ok)
       /\ parties' = IF ok
                     THEN [parties EXCEPT ![q] = claim_daily_reward(@, player_id, timestamp_ms)]
                     ELSE parties
       /\ dirty' = (dirty \/ ok)
       /\ UNCHANGED <<player_to_party, player_invites, player_names, data_file,
                      save_files, next_id>>

\* the membership operations together with direct calls of the Party mutators
NextParty ==
    \/ NextMembership
    \/ \E q \in DOMAIN parties, p \in Players, role \in PartyRole : Party_set_role(q, p, role)
    \/ \E q \in DOMAIN parties, p \in Players : Party_transfer_leadership(q, p)
    \/ \E q \in DOMAIN parties, p \in Players : Party_add_member(q, p)
    \/ \E q \in DOMAIN parties, p \in Players : Party_remove_member(q, p)
    \/ \E q \in DOMAIN parties, p \in Players : Party_ban_player(q, p)
    \/ \E q \in DOMAIN parties, p \in Players : Party_unban_player(q, p)

\* the plugin calls the manager until shutdown has run
Running == shutdown_log = << >>

\* the life cycle of the registry: until shutdown the plugin creates and
\* disbands parties, invites, accepts, saves, reloads, starts and stops; time
\* passes and the scheduler runs the callbacks of live tasks at any time, also
\* after shutdown
NextLifecycle ==
    \/ Running /\ \E p \in Players : create_party(p)
    \/ Running /\ \E q \in PartyIds : disband_party(q)
    \/ Running /\ \E q \in DOMAIN parties, p \in Players : invite_player(q, p)
    \/ Running /\ \E q \in DOMAIN parties, p \in Players : accept_invite(p, q)
    \/ Running /\ \E force \in BOOLEAN, raises \in BOOLEAN : save_all(force, raises)
    \/ Running /\ \E raises \in BOOLEAN, unreadable \in BOOLEAN : reload(raises, unreadable)
    \/ Running /\ start
    \/ Running /\ stop
    \/ Running /\ start_autosave_task
    \/ Running /\ \E raises \in BOOLEAN : on_disable(raises)
    \/ Tick
    \/ update_markers
    \/ \E raises \in BOOLEAN : run_periodic_maintenance(raises)
    \/ \E online \in SUBSET Players : update_playtime(online)
    \/ cleanup_memory

SpecLifecycle == Init /\ [][NextLifecycle]_vars

\* the manager started, stopped, reloaded and shut down in any order, under
\* any configuration of its tasks, with parties created in between
NextTasks ==
    \/ start
    \/ \E enabled \in TaskConfigs : start_configured(enabled)
    \/ stop
    \/ \E raises \in BOOLEAN, unreadable \in BOOLEAN : reload(raises, unreadable)
    \/ \E raises \in BOOLEAN : on_disable(raises)
    \/ \E p \in Players : create_party(p)

SpecTasks == Init /\ [][NextTasks]_vars

\* bans and their removal on parties with members, pending invites and
\* pending join requests
NextBan ==
    \/ \E p \in Players : create_party(p)
    \/ \E q \in DOMAIN parties, p \in Players : add_player_to_party(p, q)
    \/ \E q \in DOMAIN parties, p \in Players : invite_player(q, p)
    \/ \E q \in DOMAIN parties, p \in Players : request_to_join(p, q)
    \/ \E q \in DOMAIN parties, p \in Players : Party_ban_player(q, p)
    \/ \E q \in DOMAIN parties, p \in Players : Party_unban_player(q, p)

SpecBan == Init /\ [][NextBan]_vars

\* ---- loading a data file that was written or edited elsewhere ----
\* parties as create_party, add_player_to_party and invite_player leave them
WellFormedParties(id) ==
    LET solo == {Party_create(id, l) : l \in Players}
        duo == {add_member(p, m) : p \in solo, m \in Players}
    IN duo \cup UNION {{Party_invite_player(p, x, 0) : x \in Players \ p.members} : p \in duo}

MalformKinds == {"none", "bad_id", "no_leader", "bad_member", "bad_invite_key",
                 "bad_invite_value"}

\* a snapshot entry with one thing wrong
Malform(d, kind) ==
    CASE kind = "none" -> d
      [] kind = "bad_id" -> [d EXCEPT !.id = BadUuid]
      [] kind = "no_leader" -> [d EXCEPT !.leader = Absent]
      [] kind = "bad_member" -> [d EXCEPT !.members = Append(@, BadUuid)]
      [] kind = "bad_invite_key" -> [d EXCEPT !.invites = Put(@, BadUuid, 0)]
      [] kind = "bad_invite_value" ->
            [d EXCEPT !.invites = Put(@, str_uuid(SetMax(Players)), NotAnInt)]

SnapshotEntries(id) ==
    {Malform(to_dict(p), kind) : p \in WellFormedParties(id), kind \in MalformKinds}

\* a manager about to load a data file of two entries and one name
InitLoad ==
    /\ parties = EmptyMap
    /\ player_to_party = EmptyMap
    /\ player_invites = EmptyMap
    /\ player_names = EmptyMap
    /\ dirty = FALSE
    /\ \E first \in SnapshotEntries(1), second \in SnapshotEntries(2) :
          data_file = <<[parties |-> <<first, second>>,
                         player_names |-> StrKeys(Put(EmptyMap, 1, PlayerName(1)))]>>
    /\ NoSaveYet
    /\ now = 0
    /\ next_id = 3
    /\ result = "none"
    /\ invite_age = NoAge
    /\ task_handle = [t \in AllTasks |-> FALSE]
    /\ scheduled = [t \in AllTasks |-> 0]
    /\ shutdown_log = << >>
    /\ ops = 0

NextLoad == \E unreadable \in {FALSE} : load_all(unreadable)

SpecLoad == InitLoad /\ [][NextLoad]_vars

\* a manager whose data file is missing, cannot be read, or makes load raise:
\* it starts without a data file and builds a registry, or starts on a data
\* file written elsewhere
InitLoadFail ==
    /\ parties = EmptyMap
    /\ player_to_party = EmptyMap
    /\ player_invites = EmptyMap
    /\ player_names = EmptyMap
    /\ dirty = FALSE
    /\ \/ data_file = << >> /\ next_id = 1
       \/ /\ \E entry \in SnapshotEntries(1) :
                data_file = <<[parties |-> <<entry>>,
                               player_names |-> StrKeys(Put(EmptyMap, 1, PlayerName(1)))]>>
          /\ next_id = 2
    /\ NoSaveYet
    /\ now = 0
    /\ result = "none"
    /\ invite_age = NoAge
    /\ task_handle = [t \in AllTasks |-> FALSE]
    /\ scheduled = [t \in AllTasks |-> 0]
    /\ shutdown_log = << >>
    /\ ops = 0

NextLoadFail ==
    \/ \E p \in Players : create_party(p)
    \/ \E q \in DOMAIN parties, p \in Players : invite_player(q, p)
    \/ \E unreadable \in BOOLEAN : load_all(unreadable)

SpecLoadFail == InitLoadFail /\ [][NextLoadFail]_vars

\* daily rewards claimed by the members of a party at clock readings up to
\* MaxRewardTime
NextDaily ==
    \/ \E p \in Players : create_party(p)
    \/ \E q \in DOMAIN parties, p \in Players : add_player_to_party(p, q)
    \/ \E q \in DOMAIN parties : \E p \in parties[q].members, t \in 1..MaxRewardTime :
          Party_claim_daily_reward(q, p, t)
    \/ \E q \in DOMAIN parties, p \in Players : Party_remove_member(q, p)

SpecDaily == Init /\ [][NextDaily]_vars

\* data file: a party leaves `parties` here only by being disbanded or by a
\* reload of a file that never held it
NextReuse ==
    \/ \E p \in Players : create_party(p)
    \/ \E q \in PartyIds : disband_party(q)
    \/ \E p \in Players : leave_party(p)
    \/ \E force \in BOOLEAN, raises \in BOOLEAN : save_all(force, raises)
    \/ \E raises \in BOOLEAN : reload(raises, FALSE)

SpecReuse == Init /\ [][NextReuse]_vars

\* the registry calls between saves, and the steps of a save with the
\* failures and the interruptions each step can meet
NextSave ==
    \/ save_pc = "idle" /\ \E p \in Players : create_party(p)
    \/ save_pc = "idle" /\ \E q \in PartyIds : disband_party(q)
    \/ \E force \in BOOLEAN : save_begin(force)
    \/ \E outcome \in {"ok", "unwritten", "truncated"} : save_backup(outcome)
    \/ \E fails \in BOOLEAN : save_write_temp(fails)
    \/ \E fails \in BOOLEAN : save_replace(fails)
    \/ \E mid_write \in BOOLEAN : interrupt_save(mid_write)

SpecSave == Init /\ [][NextSave]_vars

\* the registry calls between saves, and the statements of a save on the
\* MySQL backend with the failures each can meet
NextMySQL ==
    \/ save_pc = "idle" /\ \E p \in Players : create_party(p)
    \/ save_pc = "idle" /\ \E q \in PartyIds : disband_party(q)
    \/ \E force \in BOOLEAN : mysql_save_begin(force)
    \/ \E done \in SUBSET {str_uuid(q) : q \in PartyIds} : mysql_upsert_parties(done)
    \/ \E fails \in BOOLEAN : mysql_delete_missing(fails)
    \/ \E done \in SUBSET {str_uuid(x) : x \in Players} : mysql_upsert_names(done)
    \/ \E fails \in BOOLEAN : mysql_commit(fails)
    \/ mysql_rollback

SpecMySQL == Init /\ [][NextMySQL]_vars

\* parties of one or two members with invites, and the cleanup check made
\* when a member goes offline
NextCleanup ==
    \/ \E p \in Players : create_party(p)
    \/ \E q \in DOMAIN parties, p \in Players : add_player_to_party(p, q)
    \/ \E q \in DOMAIN parties, p \in Players : invite_player(q, p)
    \/ \E q \in PartyIds, option \in BOOLEAN, online \in SUBSET Players :
          check_party_cleanup(q, option, online)

SpecCleanup == Init /\ [][NextCleanup]_vars

\* the storage keys of the configuration set to any values, and the backend
\* chosen from them
NextBackend ==
    \/ \E c \in Configs : set_config(c)
    \/ \E init_raises \in BOOLEAN : create_storage(init_raises)

SpecBackend == Init /\ [][NextBackend]_vars

\* commands used and cooldowns asked about while the clock runs, players
\* quit and the cleanup task fires
NextCooldown ==
    \/ cooldown_tick
    \/ \E p \in Players : update_command_cooldown(p)
    \/ \E p \in Players, cooldown_seconds \in CooldownValues :
          ask_command_cooldown(p, cooldown_seconds)
    \/ \E p \in Players : cleanup_player_state(p)
    \/ start
    \/ cleanup_memory

SpecCooldown == Init /\ [][NextCooldown]_vars

\* the members of a party using the daily command as the clock runs
NextDailyGate ==
    \/ \E p \in Players : create_party(p)
    \/ \E q \in DOMAIN parties, p \in Players : add_player_to_party(p, q)
    \/ \E p \in Players, t \in 1..MaxRewardTime : party_daily(p, t)

SpecDailyGate == Init /\ [][NextDailyGate]_vars

\* a registry that keeps changing for a while, with the autosave task
\* scheduled and its callback invoked again and again; the callback keeps
\* being invoked and storage.save does not fail for ever, so an invocation
\* whose save does not raise is not put off for ever
NextFlush ==
    \/ start_autosave_task
    \/ \E p \in Players : create_party(p)
    \/ \E raises \in BOOLEAN : scheduler_fires(raises)

SpecFlush == Init /\ [][NextFlush]_vars /\ WF_vars(scheduler_fires(FALSE))

\* the registry operations together with the name lookup
NextNames ==
    \/ Next
    \/ \E p \in Players, online \in BOOLEAN : get_player_name(p, online)

SpecNames == Init /\ [][NextNames]_vars

SpecParty == Init /\ [][NextParty]_vars

\* the membership operations with the clock, the invite sweep and bans, and
\* no persistence
NextOps ==
    \/ NextMembership
    \/ Tick
    \/ \E p \in Players : get_pending_invite(p)
    \/ cleanup_expired_invites
    \/ \E q \in DOMAIN parties, p \in Players : Party_ban_player(q, p)
    \/ \E q \in DOMAIN parties, p \in Players : Party_unban_player(q, p)

SpecOps == Init /\ [][NextOps]_vars

\* the invite life cycle: creating a party, inviting, accepting, asking to
\* join, banning, leaving, the passing of time and the expiry sweep
NextInvites ==
    \/ \E p \in Players : create_party(p)
    \/ \E q \in DOMAIN parties, p \in Players : invite_player(q, p)
    \/ \E q \in DOMAIN parties, p \in Players : accept_invite(p, q)
    \/ \E q \in DOMAIN parties, p \in Players : request_to_join(p, q)
    \/ \E q \in DOMAIN parties, p \in Players : Party_ban_player(q, p)
    \/ \E p \in Players : leave_party(p)
    \/ Tick
    \/ cleanup_expired_invites

SpecInvites == Init /\ [][NextInvites]_vars

\* invites sent by several parties to players who are in no party, as the
\* /party invite handler sends them, with NumPlayers + 1 players so that two
\* party leaders can invite a third player
InvitePlayers == 1..(NumPlayers + 1)

NextPending ==
    \/ \E p \in InvitePlayers : create_party(p)
    \/ \E q \in PartyIds : disband_party(q)
    \/ \E q \in DOMAIN parties, p \in InvitePlayers :
          ~is_in_party(Reg, p) /\ invite_player(q, p)
    \/ \E q \in DOMAIN parties, p \in InvitePlayers : accept_invite(p, q)
    \/ \E p \in InvitePlayers : leave_party(p)
    \/ \E p \in InvitePlayers : get_pending_invite(p)
    \/ Tick
    \/ cleanup_expired_invites

SpecPending == Init /\ [][NextPending]_vars

\* the membership operations with direct calls of Party.add_member and
\* Party.remove_member, which leave player_to_party as it is
NextIndex ==
    \/ NextMembership
    \/ \E p \in Players : get_pending_invite(p)
    \/ \E q \in DOMAIN parties, p \in Players : Party_add_member(q, p)
    \/ \E q \in DOMAIN parties, p \in Players : Party_remove_member(q, p)

SpecIndex == Init /\ [][NextIndex]_vars


\* ---- leadership election on parties of up to NumPlayers + 1 members ----
ElectionPlayers == 1..(NumPlayers + 1)

\* a party as create_party, add_player_to_party and Party.set_role leave it:
\* the leader with role LEADER, every other member with a role of its own
InitElection ==
    /\ \E members \in SUBSET ElectionPlayers \ {{}} :
       \E leader \in members :
       \E roles \in [members \ {leader} -> PartyRole \ {LEADER}] :
          /\ parties = Put(EmptyMap, 1,
                [Party_create(1, leader) EXCEPT
                    !.members = members,
                    !.roles = [m \in members |-> IF m = leader THEN LEADER ELSE roles[m]]])
          /\ player_to_party = [m \in members |-> 1]
          /\ player_names = [m \in members |-> PlayerName(m)]
    /\ player_invites = EmptyMap
    /\ dirty = TRUE
    /\ data_file = << >>
    /\ NoSaveYet
    /\ now = 0
    /\ next_id = 2
    /\ result = "none"
    /\ invite_age = NoAge
    /\ task_handle = [t \in AllTasks |-> FALSE]
    /\ scheduled = [t \in AllTasks |-> 0]
    /\ shutdown_log = << >>
    /\ ops = 0

\* leave_party when `online` is the set of players server.get_player finds
leave_party_online(player_id, online) ==
    LET q == get_player_party(Reg, player_id)
    IN /\ Count
       /\ NoTasks
       /\ invite_age' = NoAge
       /\ result' = Res("leave_party", q # None)
       /\ \E new_leader \in (IF q = None THEN {None}
                             ELSE pick_new_leader(remove_member(parties[q], player_id), online)) :
             SetReg(leave_party_reg(Reg, player_id, new_leader))
       /\ UNCHANGED <<data_file, save_files, now, next_id>>

NextElection ==
    \E p \in ElectionPlayers, online \in SUBSET ElectionPlayers : leave_party_online(p, online)

SpecElection == InitElection /\ [][NextElection]_vars


\* ---- properties of the registry ----

\* C1: every party held in `parties` has its leader among its members.
C1_LeaderIsMember ==
    \A q \in DOMAIN parties : parties[q].leader \in parties[q].members

\* C2: in every party held in `parties` every key of `roles` is a member.
C2_RolesOnlyForMembers ==
    \A q \in DOMAIN parties : DOMAIN parties[q].roles \subseteq parties[q].members

\* C3: in every party held in `parties` the role recorded for the leader is LEADER.
C3_LeaderHasLeaderRole ==
    \A q \in DOMAIN parties :
        /\ parties[q].leader \in DOMAIN parties[q].roles
        /\ parties[q].roles[parties[q].leader] = LEADER

\* C4: in every party no member holds a pending invite or a pending join
\* request of that party.
C4_MembersNotPending ==
    \A q \in DOMAIN parties :
        /\ parties[q].members \cap DOMAIN parties[q].invites = {}
        /\ parties[q].members \cap DOMAIN parties[q].join_requests = {}

\* C5: in every party no member is in banned_players.
C5_MembersNotBanned ==
    \A q \in DOMAIN parties : parties[q].members \cap parties[q].banned_players = {}

\* C6: in every party no banned player holds a pending invite or a pending
\* join request of that party.
C6_BannedNotPending ==
    \A q \in DOMAIN parties :
        /\ parties[q].banned_players \cap DOMAIN parties[q].invites = {}
        /\ parties[q].banned_players \cap DOMAIN parties[q].join_requests = {}

\* C7: no party held in `parties` has an empty member set, and no
\* player_to_party entry refers to a party that is not held in `parties`.
C7_NoEmptyParty ==
    /\ \A q \in DOMAIN parties : parties[q].members # {}
    /\ \A p \in DOMAIN player_to_party : player_to_party[p] \in DOMAIN parties

\* C7 witness: the only party ever created had both players as members and
\* the last of them has just left; the registry is empty again.
C7_Witness ==
    /\ result = "leave_party"
    /\ next_id = 2
    /\ DOMAIN player_names = Players
    /\ parties = EmptyMap
    /\ player_to_party = EmptyMap

\* C8: player_to_party is exactly the membership relation:
\* player_to_party[p] = q iff q is held in `parties` and p is a member of it.
C8_IndexIsMembership ==
    \A p \in Players, q \in PartyIds :
        (p \in DOMAIN player_to_party /\ player_to_party[p] = q)
            <=> (q \in DOMAIN parties /\ p \in parties[q].members)

\* C9: a call that is rejected leaves parties, player_to_party and
\* player_invites as they were before the call.
C9_RejectedChangesNothing ==
    [][result' = "rejected" =>
        UNCHANGED <<parties, player_to_party, player_invites>>]_vars

\* the preconditions of accept_invite other than the invite and its age
accept_invite_others(player_id, q) ==
    /\ Cardinality(parties[q].members) < MaxMembers
    /\ player_id \notin parties[q].banned_players
    /\ ~is_in_party(Reg, player_id)

\* C10 as claimed: an invite recorded at t is accepted at t + T - 1 when the
\* other preconditions hold, and is rejected at t + T.
C10_InviteTTL ==
    [][\A p \in Players, q \in DOMAIN parties :
          (has_invite(parties[q], p) /\ accept_invite(p, q)) =>
             LET age == now - parties[q].invites[p]
             IN /\ (age = InviteExpirationMs - 1 /\ accept_invite_others(p, q))
                      => result' = "accept_invite"
                /\ (age = InviteExpirationMs) => result' = "rejected"]_vars

\* C10 amended: an invite recorded at t is accepted at t + T - 1 and at t + T
\* when the other preconditions hold, and is rejected at t + T + 1.
C10_InviteTTL_Amended ==
    [][\A p \in Players, q \in DOMAIN parties :
          (has_invite(parties[q], p) /\ accept_invite(p, q)) =>
             LET age == now - parties[q].invites[p]
             IN /\ (age \in {InviteExpirationMs - 1, InviteExpirationMs}
                       /\ accept_invite_others(p, q))
                      => (result' = "accept_invite" /\ p \in parties'[q].members)
                /\ (age = InviteExpirationMs + 1)
                      => (result' = "rejected" /\ p \notin DOMAIN parties'[q].invites)]_vars

\* C10 witness: an invite of age exactly T has just been accepted.
C10_Witness ==
    /\ result = "accept_invite"
    /\ invite_age = InviteExpirationMs

\* the registry answers "in a party" for p: its player_to_party entry names a
\* held party that has p as a member
InParty(p) ==
    /\ p \in DOMAIN player_to_party
    /\ player_to_party[p] \in DOMAIN parties
    /\ p \in parties[player_to_party[p]].members

\* C11: accept_invite(p, q) returns True exactly when q holds an invite for p
\* that is not older than the TTL at accept time, q is below max-members, p is
\* not banned by q and p is in no party; on success p is a member of q,
\* player_to_party[p] = q, and the invite is gone from q.invites and from
\* player_invites.
C11_AcceptInvite ==
    [][\A p \in Players, q \in DOMAIN parties :
          (result' \in {"accept_invite", "rejected"} /\ accept_invite(p, q)) =>
             LET pre == /\ p \in DOMAIN parties[q].invites
                        /\ now - parties[q].invites[p] <= InviteExpirationMs
                        /\ Cardinality(parties[q].members) < MaxMembers
                        /\ p \notin parties[q].banned_players
                        /\ ~InParty(p)
             IN /\ (result' = "accept_invite") <=> pre
                /\ (result' = "accept_invite") =>
                      /\ p \in parties'[q].members
                      /\ p \in DOMAIN player_to_party' /\ player_to_party'[p] = q
                      /\ p \notin DOMAIN parties'[q].invites
                      /\ p \notin DOMAIN player_invites']_vars

\* C11 witness: a fresh invite has just been accepted and the party now has
\* two members, none of them with a pending invite.
C11_Witness ==
    /\ result = "accept_invite"
    /\ invite_age = 0
    /\ player_invites = EmptyMap
    /\ \E q \in DOMAIN parties :
          Cardinality(parties[q].members) = 2 /\ parties[q].invites = EmptyMap


\* C12: in every reachable state, for every held party q and player p,
\* invite_player(q, p) first drops q's invites older than the TTL; it returns
\* False if p still holds an invite of q or q holds max-pending-invites
\* invites; otherwise it records the invite at the current time and sets
\* player_invites[p] = q, and q then holds at most max-pending-invites invites.
C12_InvitePlayer ==
    \A p \in Players, q \in DOMAIN parties :
        LET inv == parties[q].invites
            live == {x \in DOMAIN inv : ~(inv[x] < now - InviteExpirationMs)}
            returned == invite_player_ok(Reg, q, p, now)
            after == invite_player_reg(Reg, q, p, now)
        IN IF p \notin live /\ Cardinality(live) < MaxPendingInvites
           THEN /\ returned
                /\ after.parties[q].invites =
                       [x \in live \cup {p} |-> IF x = p THEN now ELSE inv[x]]
                /\ p \in DOMAIN after.player_invites /\ after.player_invites[p] = q
                /\ Cardinality(DOMAIN after.parties[q].invites) <= MaxPendingInvites
           ELSE /\ ~returned
                /\ after.parties[q].invites = [x \in live |-> inv[x]]

\* C12 witness: an invite was sent after the party's earlier invite had expired;
\* the party holds exactly the new invite, stamped with the current time.
C12_Witness ==
    /\ result = "invite_player"
    /\ now > InviteExpirationMs
    /\ \E q \in DOMAIN parties, p \in Players :
          /\ DOMAIN parties[q].invites = {p} /\ parties[q].invites[p] = now
          /\ p \in DOMAIN player_invites /\ player_invites[p] = q


\* C13: create_party(p) returns None and leaves parties, player_to_party and
\* player_invites as they were when p is already a member of a party;
\* otherwise it adds one party under a fresh id whose leader and only member
\* is p with role LEADER, sets player_to_party[p] to it, and sets the dirty flag.
C13_CreateParty ==
    [][\A p \in Players :
          (result' \in {"create_party", "rejected"} /\ create_party(p)) =>
             IF InParty(p)
             THEN /\ result' = "rejected"
                  /\ UNCHANGED <<parties, player_to_party, player_invites, dirty, next_id>>
             ELSE /\ result' = "create_party"
                  /\ \E id \in DOMAIN parties' \ DOMAIN parties :
                        /\ DOMAIN parties' = DOMAIN parties \cup {id}
                        /\ id >= next_id
                        /\ \A q \in DOMAIN parties : parties'[q] = parties[q]
                        /\ parties'[id].id = id
                        /\ parties'[id].leader = p
                        /\ parties'[id].members = {p}
                        /\ parties'[id].roles = [x \in {p} |-> LEADER]
                        /\ parties'[id].invites = EmptyMap
                        /\ parties'[id].join_requests = EmptyMap
                        /\ parties'[id].banned_players = {}
                        /\ player_to_party' = [x \in DOMAIN player_to_party \cup {p} |->
                                                 IF x = p THEN id ELSE player_to_party[x]]
                  /\ dirty']_vars

\* C13 witness: a party was created while the dirty flag was clear after a
\* save, and the flag is set again.
C13_Witness ==
    /\ result = "create_party"
    /\ dirty
    /\ data_file # << >>
    /\ next_id = 3
    /\ \E q \in DOMAIN parties : q = 2 /\ parties[q].members = {parties[q].leader}


\* C14: disband_party(id) on a held party removes it from `parties`, removes
\* the player_to_party entry of each of its members only when the entry names
\* id, removes every player_invites entry naming id and keeps every other
\* entry; on an id not held it returns False and changes nothing.
C14_DisbandParty ==
    [][\A id \in PartyIds :
          (result' \in {"disband_party", "rejected"} /\ disband_party(id)) =>
             IF id \in DOMAIN parties
             THEN /\ result' = "disband_party"
                  /\ DOMAIN parties' = DOMAIN parties \ {id}
                  /\ \A q \in DOMAIN parties' : parties'[q] = parties[q]
                  /\ DOMAIN player_to_party' =
                        {m \in DOMAIN player_to_party :
                            ~(m \in parties[id].members /\ player_to_party[m] = id)}
                  /\ \A m \in DOMAIN player_to_party' : player_to_party'[m] = player_to_party[m]
                  /\ DOMAIN player_invites' =
                        {m \in DOMAIN player_invites : player_invites[m] # id}
                  /\ \A m \in DOMAIN player_invites' : player_invites'[m] = player_invites[m]
             ELSE /\ result' = "rejected"
                  /\ UNCHANGED <<parties, player_to_party, player_invites,
                                 player_names, dirty>>]_vars

\* C14 witness: party 1 has just been disbanded while party 2 is held; a
\* player keeps an entry naming party 2 in player_to_party and another in
\* player_invites.
C14_Witness ==
    /\ result = "disband_party"
    /\ DOMAIN parties = {2}
    /\ \E m \in DOMAIN player_to_party : player_to_party[m] = 2
    /\ \E m \in DOMAIN player_invites : player_invites[m] = 2


\* C15: when the leader p leaves through leave_party and members remain, the
\* new leader is one of the remaining members and is the party's leader
\* afterwards: an online one if any remaining member is online, and otherwise
\* the remaining member with the smallest identifier.
C15_Election ==
    [][\A p \in ElectionPlayers, online \in SUBSET ElectionPlayers :
          LET q == Get(player_to_party, p, None)
              remaining == parties[q].members \ {p}
          IN (/\ q \in DOMAIN parties
              /\ parties[q].leader = p
              /\ remaining # {}
              /\ leave_party_online(p, online)) =>
                 /\ q \in DOMAIN parties'
                 /\ parties'[q].members = remaining
                 /\ parties'[q].leader \in remaining
                 /\ (remaining \cap online # {}) => parties'[q].leader \in online
                 /\ (remaining \cap online = {}) =>
                        \A m \in remaining : parties'[q].leader <= m]_vars

\* C15 witness: the leader of a three-member party has left and the new
\* leader is the larger of the two remaining members, which only happens
\* when that member was online and the smaller one was not.
C15_Witness ==
    /\ result = "leave_party"
    /\ ops = 1
    /\ 1 \in DOMAIN parties
    /\ Cardinality(parties[1].members) = 2
    /\ parties[1].leader = SetMax(parties[1].members)


\* the registry states the end-to-end scenario passes through, for a leader a,
\* an invitee b and the party id q
Scn0 ==
    parties = EmptyMap /\ player_to_party = EmptyMap /\ player_invites = EmptyMap
Scn1(a, q) ==
    /\ DOMAIN parties = {q}
    /\ parties[q].leader = a /\ parties[q].members = {a}
    /\ parties[q].roles = [x \in {a} |-> LEADER]
    /\ parties[q].invites = EmptyMap /\ parties[q].banned_players = {}
    /\ player_to_party = [x \in {a} |-> q]
    /\ player_invites = EmptyMap
Scn2(a, b, q) ==
    /\ DOMAIN parties = {q}
    /\ parties[q].leader = a /\ parties[q].members = {a}
    /\ parties[q].roles = [x \in {a} |-> LEADER]
    /\ DOMAIN parties[q].invites = {b} /\ parties[q].banned_players = {}
    /\ player_to_party = [x \in {a} |-> q]
    /\ Get(player_invites, b, None) = q
Scn3(a, b, q) ==
    /\ DOMAIN parties = {q}
    /\ parties[q].leader = a /\ parties[q].members = {a, b}
    /\ parties[q].roles = [x \in {a, b} |-> IF x = a THEN LEADER ELSE MEMBER]
    /\ player_to_party = [x \in {a, b} |-> q]
Scn4(b, q) ==
    /\ DOMAIN parties = {q}
    /\ parties[q].leader = b /\ parties[q].members = {b}
    /\ player_to_party = [x \in {b} |-> q]
Scn5 ==
    parties = EmptyMap /\ player_to_party = EmptyMap

\* C16: create_party(a); invite_player(q, b); accept_invite(b, q);
\* leave_party(a); leave_party(b) passes through: a leader of {a}; b found by
\* get_pending_invite; members {a, b} with b in role MEMBER; b leader of {b};
\* and finally `parties` and `player_to_party` both empty.  Each call, made in
\* the state the scenario has reached, gives the scenario's next state; the
\* invite is accepted within its lifetime and max-members is at least 2.
C16_Scenario ==
    [][/\ Scn0 => \A a \in Players, q \in PartyIds :
                    (q = next_id /\ create_party(a)) => Scn1(a, q)'
       /\ \A q \in DOMAIN parties :
             (DOMAIN parties = {q}) =>
                LET a == parties[q].leader
                IN /\ \A b \in Players \ {a} :
                         /\ (Scn1(a, q) /\ invite_player(q, b)) => Scn2(a, b, q)'
                         /\ (/\ Scn2(a, b, q)
                             /\ now - parties[q].invites[b] <= InviteExpirationMs
                             /\ Cardinality(parties[q].members) < MaxMembers
                             /\ accept_invite(b, q)) => Scn3(a, b, q)'
                         /\ (Scn3(a, b, q) /\ leave_party(a)) => Scn4(b, q)'
                   /\ (Scn4(a, q) /\ leave_party(a)) => Scn5']_vars

\* C16 witness: the five calls of the scenario have been made from the empty
\* registry with no time passing, and the registry is empty again with both
\* players' names recorded.
C16_Witness ==
    /\ result = "leave_party"
    /\ ops = 5
    /\ now = 0
    /\ next_id = 2
    /\ Scn5
    /\ player_invites = EmptyMap
    /\ player_names = [x \in Players |-> PlayerName(x)]


C18_ChangeSetsDirty ==
    [][(/\ result' \notin {"load_all", "reload"}
        /\ (parties' # parties \/ player_names' # player_names)) => dirty']_vars


\* C19: save_all(force) reaches the storage backend only when the dirty flag
\* is set or force is true; when the backend's save succeeds the data file
\* holds the registry and the dirty flag is cleared; when it raises, the error
\* is swallowed, the registry and the data file are unchanged and the dirty
\* flag is left as it was.
C19_SaveAll ==
    [][\A force \in BOOLEAN, raises \in BOOLEAN :
          (result' \in {"save_all", "none"} /\ save_all(force, raises)) =>
             /\ UNCHANGED <<parties, player_to_party, player_invites, player_names>>
             /\ (~force /\ ~dirty) => UNCHANGED <<data_file, dirty>>
             /\ ((force \/ dirty) /\ ~raises) =>
                   /\ ~dirty'
                   /\ data_file' = <<storage_payload(parties, player_names)>>
             /\ ((force \/ dirty) /\ raises) => UNCHANGED <<data_file, dirty>>]_vars

\* C19 witness: a save has just succeeded on a registry that holds a party:
\* the data file holds the registry and the dirty flag is clear.
C19_Witness ==
    /\ result = "save_all"
    /\ ~dirty
    /\ parties # EmptyMap
    /\ data_file = <<storage_payload(parties, player_names)>>


C21_NoReuse ==
    [][\A q \in PartyIds :
          (q < next_id /\ q \notin DOMAIN parties) => q \notin DOMAIN parties']_vars


\* C22: transfer_leadership(new) returns False and changes nothing when new is
\* not a member; for a member other than the leader it returns True, new
\* becomes the leader with role LEADER and the outgoing leader gets role
\* OFFICER; for the leader it returns True and leaves leader and roles as they
\* are.
C22_TransferLeadership ==
    [][\A q \in DOMAIN parties, new \in Players :
          (result' \in {"transfer_leadership", "rejected"}
              /\ Party_transfer_leadership(q, new)) =>
             LET p == parties[q]
                 after == parties'[q]
             IN /\ (new \notin p.members) =>
                      result' = "rejected" /\ after = p
                /\ (new \in p.members /\ new # p.leader) =>
                      /\ result' = "transfer_leadership"
                      /\ after.leader = new
                      /\ Get(after.roles, new, None) = LEADER
                      /\ Get(after.roles, p.leader, None) = OFFICER
                /\ (new \in p.members /\ new = p.leader) =>
                      /\ result' = "transfer_leadership"
                      /\ after.leader = p.leader
                      /\ after.roles = p.roles]_vars


\* C23: set_role(id, role) leaves the party as it is when id is the leader or
\* is not a member; for any other member it changes that member's role entry
\* and nothing else; the leader field never changes.
C23_SetRole ==
    [][\A q \in DOMAIN parties, id \in Players, role \in PartyRole :
          (result' = "none" /\ Party_set_role(q, id, role)) =>
             LET p == parties[q]
                 after == parties'[q]
             IN /\ after.leader = p.leader
                /\ (id = p.leader \/ id \notin p.members) => after = p
                /\ (id # p.leader /\ id \in p.members) =>
                      after = [p EXCEPT !.roles = Put(p.roles, id, role)]]_vars


\* C24: banning a player twice gives the party that banning once gives; after
\* ban_player(id) the player is in banned_players and is neither a member nor
\* holds a role, an invite or a join request; unban_player(id) changes only
\* banned_players and does not make id a member.
C24_Ban ==
    [][\A q \in DOMAIN parties, id \in Players :
          LET p == parties[q]
              after == parties'[q]
          IN /\ (result' = "none" /\ Party_ban_player(q, id)) =>
                   /\ ban_player(after, id) = after
                   /\ id \in after.banned_players
                   /\ id \notin after.members
                   /\ id \notin DOMAIN after.roles
                   /\ id \notin DOMAIN after.invites
                   /\ id \notin DOMAIN after.join_requests
             /\ (result' = "none" /\ Party_unban_player(q, id)) =>
                   /\ after = [p EXCEPT !.banned_players = p.banned_players \ {id}]
                   /\ (id \in after.members) = (id \in p.members)
                   /\ UNCHANGED <<player_to_party, player_invites>>]_vars

\* C24 witness: a player who was a member of a party (the index still names
\* it) has been banned from it, while another player, not banned, holds a
\* pending invite.
C24_Witness ==
    \E q \in DOMAIN parties, id \in Players :
       /\ id \in parties[q].banned_players
       /\ id \notin parties[q].members
       /\ id \in DOMAIN player_to_party
       /\ player_to_party[id] = q
       /\ \E other \in Players \ {id} :
             /\ other \notin parties[q].banned_players
             /\ other \in DOMAIN player_invites


\* C25: claim_daily_reward sets consecutive_days to 1 on the first claim of a
\* party, adds one when floor((now - last_reward_date) / MILLIS_PER_DAY) is 1
\* and sets it to 1 when that quotient is larger, so that claims at t0,
\* t0 + 1 day and t0 + 3 days give 1, 2, 1; can_claim_daily_reward is false
\* for a member less than one day after that member's previous claim.
C25_DailyReward ==
    [][\A q \in DOMAIN parties, id \in Players :
          (result' = "claim_daily_reward"
              /\ Party_claim_daily_reward(q, id, parties'[q].last_reward_date)) =>
             LET p == parties[q]
                 after == parties'[q]
                 t == after.last_reward_date
                 quotient == (t - p.last_reward_date) \div MILLIS_PER_DAY
             IN /\ (p.last_reward_date = 0) => after.consecutive_days = 1
                /\ (p.last_reward_date > 0 /\ quotient = 1) =>
                      after.consecutive_days = p.consecutive_days + 1
                /\ (p.last_reward_date > 0 /\ quotient > 1) => after.consecutive_days = 1
                /\ \A later \in t..MaxRewardTime :
                      (later - t < MILLIS_PER_DAY) => ~can_claim_daily_reward(after, id, later)
                /\ (p.last_reward_date = 0 /\ t + 3 * MILLIS_PER_DAY <= MaxRewardTime) =>
                      LET second == claim_daily_reward(after, id, t + MILLIS_PER_DAY)
                          third == claim_daily_reward(second, id, t + 3 * MILLIS_PER_DAY)
                      IN /\ can_claim_daily_reward(after, id, t + MILLIS_PER_DAY)
                         /\ second.consecutive_days = 2
                         /\ third.consecutive_days = 1]_vars

\* C25 witness: a party whose members claimed at t0, one day later and three
\* days after t0: the last claim restarted the streak.
C25_Witness ==
    /\ result = "claim_daily_reward"
    /\ ops = 4
    /\ \E q \in DOMAIN parties, id \in Players :
          /\ parties[q].last_reward_date = 1 + 3 * MILLIS_PER_DAY
          /\ parties[q].last_daily_reward = Put(EmptyMap, id, 1 + 3 * MILLIS_PER_DAY)
          /\ parties[q].consecutive_days = 1


\* C26: converting a party to its snapshot and back gives the same party in
\* every field.
C26_RoundTrip ==
    \A q \in DOMAIN parties : from_dict(to_dict(parties[q])) = parties[q]


\* C27: load_all on a data file with malformed entries loads every party
\* whose id and leader parse, with every nested entry that is well formed, and
\* skips only the other parties and drops only the other nested entries.
C27_PartialCorruption ==
    [][(result' = "load_all" /\ data_file # << >>) =>
          LET entries == Range(data_file[1].parties)
              good == {e \in entries : entry_ok(e)}
          IN /\ DOMAIN parties' = {parse_uuid(e.id) : e \in good}
             /\ \A e \in good :
                   LET loaded == parties'[parse_uuid(e.id)]
                   IN /\ loaded.leader = parse_uuid(e.leader)
                      /\ loaded.members =
                            ({parse_uuid(m) : m \in Range(e.members)} \ {None})
                               \cup {parse_uuid(e.leader)}
                      /\ DOMAIN loaded.invites =
                            {parse_uuid(k) : k \in {x \in DOMAIN e.invites :
                                 parse_uuid(x) # None /\ e.invites[x] # NotAnInt}}]_vars


\* C28: what load() reads from the data file that a successful save has just
\* written is exactly the saved registry: the same parties under the same ids
\* with the same field values, and the saved display names that are not empty.
C28_StorageRoundTrip ==
    [][(result' = "save_all") =>
          /\ storage_load_parties(data_file') = parties
          /\ storage_load_names(data_file') = NonEmptyNames(player_names)]_vars

\* C29: at every step of a save taken apart into the backup copy, the write
\* of the temporary file and the rename, with each step able to fail and the
\* process able to be stopped before or in the middle of each step, the data
\* file is a complete document, and it is either the document it was before
\* the step or the complete payload of the registry being saved; so a reader
\* that looks at it in any state sees one of the two.
C29_AtomicSave ==
    [][/\ IsComplete(data_file')
       /\ \/ data_file' = data_file
          \/ data_file' = <<storage_payload(parties, player_names)>>]_vars

\* C29 witness: a save that overwrites an existing data file was stopped in
\* the middle of the write of the temporary file; the temporary file is cut
\* short, and the restarted manager has loaded the parties of the previous
\* document from the data file.
C29_Witness ==
    /\ result = "load_all"
    /\ temp_file = <<Truncated>>
    /\ data_file # << >>
    /\ backup_file = data_file
    /\ DOMAIN parties # {}
    /\ parties = storage_load_parties(data_file)

\* C30: when the rename of a step-by-step save succeeds the data file holds
\* the payload of the registry, and: if the data file existed before the save
\* and the backup copy did not raise, the backup file holds what the data file
\* held before the rename; if there was no data file, there is no backup file.
\* A backup copy that raises is followed by the write of the temporary file,
\* not by the end of the save.
C30_Backup ==
    [][/\ (save_pc = "replace" /\ temp_file' = << >>) =>
             /\ data_file' = <<storage_payload(parties, player_names)>>
             /\ (data_file # << >> /\ ~backup_error) => backup_file' = data_file
             /\ (data_file = << >>) => backup_file' = << >>
       /\ (save_pc = "backup" /\ backup_error') => save_pc' = "temp"]_vars

\* C30 witness: after a first save and a save that backed the data file up, a
\* further save whose backup copy raised has completed; the data file holds
\* the new payload and the backup file still holds the complete older
\* document.
C30_Witness ==
    /\ result = "save_all"
    /\ save_pc = "idle"
    /\ backup_error
    /\ backup_file # << >>
    /\ IsComplete(backup_file)
    /\ backup_file # data_file
    /\ data_file = <<storage_payload(parties, player_names)>>

\* C31: a load_all on a data file that is missing, that cannot be read as a
\* document, or on which the backend's load raises, completes and leaves
\* parties, player_names, player_to_party and player_invites empty and the
\* dirty flag clear.
C31_LoadFailsOpen ==
    [][\A unreadable \in BOOLEAN :
          (/\ result' = "load_all"
           /\ unreadable \/ data_file = << >> \/ storage_load_raises(data_file)
           /\ load_all(unreadable))
          => /\ parties' = EmptyMap
             /\ player_names' = EmptyMap
             /\ player_to_party' = EmptyMap
             /\ player_invites' = EmptyMap
             /\ dirty' = FALSE]_vars

\* C31 witness: a manager without a data file created a party and invited a
\* player, two calls that record names and an invite, and the load_all that
\* followed has left the registry empty.
C31_Witness ==
    /\ result = "load_all"
    /\ ops = 3
    /\ next_id = 2
    /\ data_file = << >>
    /\ parties = EmptyMap
    /\ player_names = EmptyMap
    /\ player_to_party = EmptyMap
    /\ player_invites = EmptyMap
    /\ ~dirty

\* C32: when a save on the MySQL backend commits, the party table holds
\* exactly one row per party of the registry, under str(party.id) and with
\* that party's snapshot, and no other row, also when the registry is empty;
\* every other step of a save, a statement that raises and the rollback that
\* follows it included, leaves the party table and the name table as other
\* connections see them unchanged, and a save in which a statement raised
\* ends with the exception raised and the transaction discarded.
C32_MySQLSave ==
    [][/\ (save_pc = "commit" /\ save_pc' = "idle") =>
             /\ party_table' = party_rows(parties)
             /\ result' = "save_all"
       /\ ~(save_pc = "commit" /\ save_pc' = "idle") =>
             UNCHANGED <<party_table, names_table>>
       /\ (save_pc = "rollback") =>
             /\ save_pc' = "idle"
             /\ result' = "save_raised"
             /\ tx' = NoTx]_vars

\* C32 witness: a party was saved and committed, then disbanded, and the next
\* save has committed too: the registry and the party table are both empty
\* while the name table still holds the leader's name.
C32_Witness ==
    /\ result = "save_all"
    /\ save_pc = "idle"
    /\ next_id = 2
    /\ parties = EmptyMap
    /\ party_table = EmptyMap
    /\ names_table # EmptyMap

\* C33: a check_party_cleanup(id) leaves the registry as it was when the
\* disband-when-all-offline option is off, when id is not in `parties`, and
\* when a member of the party is online; when the option is on and no member
\* of the party is online the party leaves `parties`, no player_to_party or
\* player_invites entry names it afterwards, the other parties and the other
\* entries of the two indexes are as before, and the registry is dirty.
C33_CheckPartyCleanup ==
    [][(result' = "check_party_cleanup") =>
          \A q \in PartyIds, option \in BOOLEAN, online \in SUBSET Players :
             check_party_cleanup(q, option, online) =>
                IF option /\ q \in DOMAIN parties /\ parties[q].members \cap online = {}
                THEN /\ parties' = Restrict(parties, DOMAIN parties \ {q})
                     /\ player_to_party' =
                           Restrict(player_to_party,
                                    {p \in DOMAIN player_to_party : player_to_party[p] # q})
                     /\ player_invites' =
                           Restrict(player_invites,
                                    {p \in DOMAIN player_invites : player_invites[p] # q})
                     /\ player_names' = player_names
                     /\ dirty'
                ELSE UNCHANGED <<parties, player_to_party, player_invites,
                                 player_names, dirty>>]_vars

\* C33 witness: with the option on, the only party, of two members, was
\* checked while nobody was online and is gone, and both indexes are empty.
C33_Witness ==
    /\ result = "check_party_cleanup"
    /\ ops = 3
    /\ next_id = 2
    /\ DOMAIN player_names = Players
    /\ parties = EmptyMap
    /\ player_to_party = EmptyMap
    /\ player_invites = EmptyMap
    /\ dirty

\* C34, as stated: every create_storage returns a backend; it returns the
\* JSON backend, with an error logged, when MySQL is selected and its
\* initialisation raises; and it returns the JSON backend whenever the
\* configured provider, storage.provider or for a blank one storage.storage,
\* is anything but mysql.
C34_CreateStorage ==
    [][(result' = "create_storage") =>
          LET named == IF strip_lower(config.provider) = ""
                       THEN strip_lower(config.storage)
                       ELSE strip_lower(config.provider)
          IN /\ backend'.kind \in {"json", "mysql"}
             /\ named # "mysql" => backend' = JsonBackend(FALSE)
             /\ \A init_raises \in BOOLEAN :
                   (/\ create_storage(init_raises)
                    /\ _resolve_storage_provider(config) = "mysql"
                    /\ init_raises) => backend' = JsonBackend(TRUE)]_vars

\* C34, amended: as above, with the JSON backend returned whenever the
\* configured provider is anything but mysql and storage.mysql.enabled is
\* off; with storage.mysql.enabled on, MySQL is selected whatever the
\* provider says.
C34_CreateStorage_Amended ==
    [][(result' = "create_storage") =>
          LET named == IF strip_lower(config.provider) = ""
                       THEN strip_lower(config.storage)
                       ELSE strip_lower(config.provider)
          IN /\ backend'.kind \in {"json", "mysql"}
             /\ (named # "mysql" /\ ~config.mysql_enabled) => backend' = JsonBackend(FALSE)
             /\ \A init_raises \in BOOLEAN :
                   (/\ create_storage(init_raises)
                    /\ (named = "mysql" \/ config.mysql_enabled)) =>
                         /\ init_raises => backend' = JsonBackend(TRUE)
                         /\ ~init_raises => /\ backend'.kind = "mysql"
                                            /\ backend'.port \in 1..65535]_vars

\* C34 witness: the provider is written " MySQL ", with a port that is not a
\* number, the initialisation of the MySQL backend raised, and create_storage
\* returned the JSON backend with an error logged.
C34_Witness ==
    /\ result = "create_storage"
    /\ config.provider = " MySQL "
    /\ ~config.mysql_enabled
    /\ config.port = NotAnInt
    /\ backend = JsonBackend(TRUE)

\* C35: whenever the cooldown of a player has just been asked about with the
\* configured cooldown cd: a player with no recorded use is not on cooldown
\* and has 0 remaining; for a player whose last recorded use was e clock units
\* ago, with k the whole seconds in e, the remaining cooldown is
\* max(0, cd - k), and for cd > 0 the player is on cooldown exactly when
\* k < cd, so in particular right after the use; and for cd <= 0 nobody is on
\* cooldown.
C35_CommandCooldown ==
    (result = "is_on_command_cooldown") =>
        LET p == cooldown_reply.player
            cd == cooldown_reply.cooldown
        IN /\ (p \notin DOMAIN last_command_use_ms) =>
                 (~cooldown_reply.on /\ cooldown_reply.remaining = 0)
           /\ (p \in DOMAIN last_command_use_ms) =>
                 LET e == now - last_command_use_ms[p]
                     k == CHOOSE n \in 0..MaxCooldownTime :
                             n * MILLIS_PER_SECOND <= e /\ e < (n + 1) * MILLIS_PER_SECOND
                 IN /\ cooldown_reply.remaining = (IF cd - k > 0 THEN cd - k ELSE 0)
                    /\ (cd > 0) => (cooldown_reply.on <=> k < cd)
                    /\ (cd > 0 /\ e = 0) => cooldown_reply.on
           /\ (cd <= 0) => ~cooldown_reply.on

\* C35 witness: with a cooldown of 2 seconds, a player who used a command one
\* second and a part of a second ago is on cooldown with 1 second remaining.
C35_Witness ==
    /\ result = "is_on_command_cooldown"
    /\ cooldown_reply.cooldown = 2
    /\ cooldown_reply.player \in DOMAIN last_command_use_ms
    /\ now - last_command_use_ms[cooldown_reply.player] = MILLIS_PER_SECOND + 1
    /\ cooldown_reply.on
    /\ cooldown_reply.remaining = 1

\* C36: at every claim that _party_daily lets through, made by any member of
\* a party that has a previous last_reward_date, the whole days between that
\* date and the claim are not 0.
C36_DaysSinceNeverZero ==
    [][(result' = "party_daily") =>
          \A q \in DOMAIN parties :
             (parties'[q] # parties[q] /\ parties[q].last_reward_date > 0) =>
                (now' - parties[q].last_reward_date) \div MILLIS_PER_DAY # 0]_vars

\* C37: while the autosave task is scheduled, a dirty registry leads to a
\* state in which the dirty flag is clear and the data file holds the payload
\* of the registry as it then is; and an invocation of the periodic callback
\* whose save raises leaves the dirty flag set, so that the next invocation
\* saves again.
C37_FlushRetries ==
    /\ (dirty /\ scheduled["_autosave_task"] > 0)
          ~> (~dirty /\ data_file = <<storage_payload(parties, player_names)>>)
    /\ [][(dirty /\ scheduler_fires(TRUE)) => dirty']_vars

\* C37 witness: after an earlier save the registry changed, the periodic
\* callback has just run, and the dirty flag is still set with the data file
\* behind the registry: the save of that invocation raised.
C37_Witness ==
    /\ result = "run_periodic_maintenance"
    /\ dirty
    /\ data_file # << >>
    /\ data_file # <<storage_payload(parties, player_names)>>

\* C38: after any sequence of registry operations every entry of the
\* pending-invite index is backed by a real invite: player_invites[p] = q
\* implies that q is held in parties and that p is a key of parties[q].invites.
C38_IndexBacked ==
    \A p \in DOMAIN player_invites :
        /\ player_invites[p] \in DOMAIN parties
        /\ p \in DOMAIN parties[player_invites[p]].invites

\* C39: whenever a player who is in no party holds an unexpired invite in some
\* party's invites, get_pending_invite(player) returns a party that holds an
\* unexpired invite for that player, also after invites by several parties,
\* after another party's invite expired or that party was disbanded, and after
\* the player joined and left another party.
C39_PendingInviteFound ==
    \A p \in InvitePlayers :
        (/\ ~is_in_party(Reg, p)
         /\ \E q \in DOMAIN parties :
               has_invite(parties[q], p) /\ ~invite_expired(parties[q], p, now))
        => /\ pending_invite(p) # None
           /\ has_invite(parties[pending_invite(p)], p)
           /\ ~invite_expired(parties[pending_invite(p)], p, now)

\* C40: after any sequence of start, stop, reload and shutdown calls at most
\* one scheduled instance of each periodic task (marker, playtime, cleanup) is
\* active: start cancels the previous instances before it schedules new ones,
\* so a task is active exactly when its handle is held, and after stop or
\* shutdown none is active.
C40_OneInstance ==
    /\ \A t \in TaskNames : scheduled[t] = IF task_handle[t] THEN 1 ELSE 0
    /\ result \in {"stop", "shutdown"} => \A t \in TaskNames : scheduled[t] = 0
    /\ result \in {"start", "reload"} => scheduled["_cleanup_task"] = 1

\* C40 witness: the manager has been reloaded after a shutdown, on a registry
\* that holds a party: every task is scheduled once.
C40_Witness ==
    /\ result = "reload"
    /\ shutdown_log # << >>
    /\ parties # EmptyMap
    /\ \A t \in TaskNames : scheduled[t] = 1

====
